---- MODULE Spec2Model ----
(***************************************************************************)
(* Image_resizer_PP_Lab2: the resize facade (sequential and OpenMP         *)
(* backends, Nearest and Bilinear kernels) as a state machine.             *)
(*                                                                         *)
(* The kernels compute in IEEE-754 binary32 ("float").  A float is modelled *)
(* as a pair <<m, e>> standing for m * 2^e with m = 0 or 2^23 <= |m| < 2^24 *)
(* and every operation rounds to nearest, ties to even, as the hardware    *)
(* does.  Subnormals, infinities and NaN do not occur for the magnitudes   *)
(* the kernels handle (coordinates and pixel values) and are not modelled. *)
(*                                                                         *)
(* The statistics of benchmark_resize and the metrics of down_up_metrics   *)
(* compute in IEEE-754 binary64 ("double"), modelled as <<s, m, e>> with a *)
(* 53-bit significand m kept in limbs.  Spec is the resize facade and the  *)
(* Image constructor, BenchSpec the benchmark harness around resize, and   *)
(* MetricsSpec compare_images and down_up_metrics.  ProgramSpec calls the  *)
(* four operations in any order, LiveSpec adds the scheduling of the       *)
(* threads, ScenarioSpec is the gradient example, AccessSpec the element   *)
(* access of Image and CsvSpec append_csv_row on one file.                 *)
(***************************************************************************)
EXTENDS Integers, Sequences, FiniteSets, TLC

(***************************************************************************)
(* Bounds of the model                                                     *)
(***************************************************************************)
\* largest width and height of a source buffer
MaxDim == 2

\* largest output width and height requested
MaxOutW == 3

MaxOutH == 2

\* nthreads-var when the process starts (the cores of the machine)
DefaultThreads == 4

\* largest warmup, runs and inner_reps passed to benchmark_resize
MaxWarmup == 1

MaxRuns == 3

MaxReps == 5

\* most lines of the CSV file before append_csv_row is called once more
MaxLines == 3

(***************************************************************************)
(***************************************************************************)
(* binary32 arithmetic                                                     *)
(***************************************************************************)
Abs(n) == IF n < 0 THEN -n ELSE n

Sign(n) == IF n < 0 THEN -1 ELSE 1

Pow2(n) == 2 ^ n

F32Zero == <<0, 0>>

\* number of significant bits of a, 0 <= a < 2^31
BitLen(a) ==
    IF a >= 32768
      THEN IF a >= 8388608
             THEN IF a >= 134217728
                    THEN IF a >= 536870912
                           THEN IF a >= 1073741824
                                  THEN 31
                                  ELSE 30
                           ELSE IF a >= 268435456
                                  THEN 29
                                  ELSE 28
                    ELSE IF a >= 33554432
                           THEN IF a >= 67108864
                                  THEN 27
                                  ELSE 26
                           ELSE IF a >= 16777216
                                  THEN 25
                                  ELSE 24
             ELSE IF a >= 524288
                    THEN IF a >= 2097152
                           THEN IF a >= 4194304
                                  THEN 23
                                  ELSE 22
                           ELSE IF a >= 1048576
                                  THEN 21
                                  ELSE 20
                    ELSE IF a >= 131072
                           THEN IF a >= 262144
                                  THEN 19
                                  ELSE 18
                           ELSE IF a >= 65536
                                  THEN 17
                                  ELSE 16
      ELSE IF a >= 128
             THEN IF a >= 2048
                    THEN IF a >= 8192
                           THEN IF a >= 16384
                                  THEN 15
                                  ELSE 14
                           ELSE IF a >= 4096
                                  THEN 13
                                  ELSE 12
                    ELSE IF a >= 512
                           THEN IF a >= 1024
                                  THEN 11
                                  ELSE 10
                           ELSE IF a >= 256
                                  THEN 9
                                  ELSE 8
             ELSE IF a >= 8
                    THEN IF a >= 32
                           THEN IF a >= 64
                                  THEN 7
                                  ELSE 6
                           ELSE IF a >= 16
                                  THEN 5
                                  ELSE 4
                    ELSE IF a >= 2
                           THEN IF a >= 4
                                  THEN 3
                                  ELSE 2
                           ELSE IF a >= 1
                                  THEN 1
                                  ELSE 0

\* m * 2^e shifted left by s bits
F32Shl(m, e, s) == <<m * Pow2(s), e - s>>

\* exact value m * 2^e with |m| < 2^24, brought to the normalised form
F32Norm(m, e) ==
    IF m = 0 THEN F32Zero ELSE F32Shl(m, e, 24 - BitLen(Abs(m)))

\* sign s, significand q of at most 24 bits plus a possible carry out
F32Carry(s, q, e) ==
    IF q = 16777216 THEN <<s * 8388608, e + 1>> ELSE <<s * q, e>>

\* q kept, r2/p of a unit dropped: round to nearest, ties to even
F32RoundUp(s, q, e, r2, p) ==
    F32Carry(s, IF r2 > p \/ (r2 = p /\ q % 2 = 1) THEN q + 1 ELSE q, e)

\* m * 2^e, k bits too long for a significand (k <= 0: it fits)
F32RoundAt(m, e, sticky, k) ==
    IF m = 0 THEN F32Zero
    ELSE IF k <= 0 THEN F32Shl(m, e, -k)
    ELSE F32RoundUp(Sign(m), Abs(m) \div Pow2(k), e + k,
                    2 * (Abs(m) % Pow2(k)) + (IF sticky THEN 1 ELSE 0), Pow2(k))

\* m * 2^e (plus, when sticky, a non-zero amount of magnitude below one unit
\* of m, on the side away from zero) rounded to 24 significant bits, ties to
\* even; |m| < 2^31
F32Round(m, e, sticky) == F32RoundAt(m, e, sticky, BitLen(Abs(m)) - 24)

\* static_cast<float>(int) for |n| < 2^24
F32FromInt(n) == F32Norm(n, 0)

\* 0.5f
F32Half == <<8388608, -24>>

F32DivQ(n, b, s) == F32Round(n \div b, -s, n % b # 0)

F32DivAt(a, b, s) ==
    IF (a * Pow2(s)) \div b >= 33554432 THEN F32DivQ(a * Pow2(s - 1), b, s - 1)
    ELSE F32DivQ(a * Pow2(s), b, s)

\* a / b for integers a, b > 0 with b < 32: the quotient a * 2^s / b is
\* formed with 25 bits and rounded
F32DivInt(a, b) == F32DivAt(a, b, 25 + BitLen(b) - BitLen(a))

\* number of trailing zero bits of m, 0 < m < 2^24
TwoPart(m) == CHOOSE k \in 0..23 : m % Pow2(k + 1) = Pow2(k)

OddPart(m) == m \div Pow2(TwoPart(m))

F32Scale(x, k) == <<x[1], x[2] + k>>

\* x / y for x, y > 0 whose significands are small integers times a power
\* of two (converted image sizes)
F32Div(x, y) ==
    F32Scale(F32DivInt(OddPart(x[1]), OddPart(y[1])),
             (x[2] + TwoPart(x[1])) - (y[2] + TwoPart(y[1])))

F32MulRound(hi, lo, s, e) ==
    F32Round(s * (hi * 64 + (lo \div 262144)), e, lo % 262144 # 0)

F32MulHiLo(hi, los, s, e) ==
    F32MulRound(hi + (los \div 16777216), los % 16777216, s, e)

F32MulSum(hh, mid, ll, s, e) ==
    F32MulHiLo(hh + (mid \div 4096), (mid % 4096) * 4096 + ll, s, e)

F32MulLimbs(a1, a0, b1, b0, s, e) ==
    F32MulSum(a1 * b1, a1 * b0 + a0 * b1, a0 * b0, s, e)

\* x * y: the 48-bit product of the significands is formed from 12-bit limbs
\* as hi * 2^24 + lo and rounded
F32Mul(x, y) ==
    IF x[1] = 0 \/ y[1] = 0 THEN F32Zero
    ELSE F32MulLimbs(Abs(x[1]) \div 4096, Abs(x[1]) % 4096,
                     Abs(y[1]) \div 4096, Abs(y[1]) % 4096,
                     Sign(x[1]) * Sign(y[1]), x[2] + y[2] + 18)

F32Neg(x) == <<-x[1], x[2]>>

\* mag: |big| * 64 plus or minus the aligned |sml|, in units of 2^(e-6)
F32AddSum(big, sml, st, mag) ==
    F32Round((IF mag < 0 THEN -Sign(sml[1]) ELSE Sign(big[1])) * mag, big[2] - 6, st)

\* yq: |sml| aligned to big with 6 guard bits, st: bits of sml were dropped
F32AddMag(big, sml, yq, st) ==
    F32AddSum(big, sml, st,
              IF Sign(big[1]) = Sign(sml[1]) THEN Abs(big[1]) * 64 + yq
              ELSE Abs(big[1]) * 64 - yq - (IF st THEN 1 ELSE 0))

F32AddAt(big, sml, d) ==
    F32AddMag(big, sml,
              IF d <= 6 THEN Abs(sml[1]) * Pow2(6 - d)
              ELSE IF d >= 30 THEN 0
              ELSE Abs(sml[1]) \div Pow2(d - 6),
              d > 6 /\ (d >= 30 \/ Abs(sml[1]) % Pow2(d - 6) # 0))

\* x + y, big being the operand with the larger exponent
F32Add(x, y) ==
    IF x[1] = 0 THEN y
    ELSE IF y[1] = 0 THEN x
    ELSE F32AddAt(IF x[2] >= y[2] THEN x ELSE y, IF x[2] >= y[2] THEN y ELSE x,
                  Abs(x[2] - y[2]))

F32Sub(x, y) == F32Add(x, F32Neg(y))

\* std::floor(x) as an integer
F32Floor(x) ==
    IF x[2] >= 0 THEN x[1] * Pow2(x[2])
    ELSE IF -x[2] > 30 THEN (IF x[1] < 0 THEN -1 ELSE 0)
    ELSE IF x[1] >= 0 THEN x[1] \div Pow2(-x[2])
    ELSE -((-x[1] + Pow2(-x[2]) - 1) \div Pow2(-x[2]))

\* std::lround(x): nearest integer, halfway cases away from zero
F32LRound(x) ==
    IF x[2] >= 0 THEN x[1] * Pow2(x[2])
    ELSE IF -x[2] > 24 THEN 0
    ELSE Sign(x[1]) * ((2 * Abs(x[1]) + Pow2(-x[2])) \div Pow2(1 - x[2]))

\* x <= n and x >= n for a float x and an integer n
F32LeqInt(x, n) == -F32Floor(F32Neg(x)) <= n

F32GeqInt(x, n) == F32Floor(x) >= n

(***************************************************************************)
(* image.hpp                                                               *)
(***************************************************************************)
Min(a, b) == IF a < b THEN a ELSE b

Max(a, b) == IF a > b THEN a ELSE b

\* struct Image: the four public members
Image(w, h, c, d) == [width |-> w, height |-> h, channels |-> c, data |-> d]

\* Image() = default
DefaultImage == Image(0, 0, 0, <<>>)

\* Image::empty()
empty(img) ==
    img.width <= 0 \/ img.height <= 0 \/ img.channels <= 0 \/ Len(img.data) = 0

\* Image::row_ptr(y), as the offset of the row's first byte in data
row_ptr(img, y) == y * img.width * img.channels

\* Image::at(x, y, c): the byte of channel c of pixel (x, y)
at(img, x, y, c) == img.data[(y * img.width + x) * img.channels + c + 1]

clamp_int(v, lo, hi) == Max(lo, Min(hi, v))

\* static_cast<std::uint8_t>(v) without the two range checks
wrap_u8(v) == v % 256

clamp_u8(v) == IF v < 0 THEN 0 ELSE IF v > 255 THEN 255 ELSE v

\* an exception leaving a call: what() is msg, no buffer is returned
Thrown(msg) == [status |-> "thrown", what |-> msg, img |-> DefaultImage]

Returned(img) == [status |-> "ok", what |-> "", img |-> img]

\* a constructor that does not check the channel count
ImageCtor_anychannels(w, h, c) ==
    IF w * h * c < 0
      THEN Thrown("cannot create std::vector larger than max_size()")
    ELSE IF w <= 0 \/ h <= 0
      THEN Thrown("Image: width/height must be > 0")
    ELSE Returned(Image(w, h, c, [i \in 1..(w * h * c) |-> 0]))

\* Image(int w, int h, int c).  The member initialisers run first: data is
\* built with static_cast<size_t>(w) * static_cast<size_t>(h) *
\* static_cast<size_t>(c) zero bytes, a product taken modulo 2^64, so it is
\* w*h*c when that is not negative and 2^64 + w*h*c (more than
\* vector::max_size(), which makes the vector constructor throw
\* std::length_error) when it is.  Only then come the two checks.
ImageCtor(w, h, c) ==
    IF w * h * c < 0
      THEN Thrown("cannot create std::vector larger than max_size()")
    ELSE IF w <= 0 \/ h <= 0
      THEN Thrown("Image: width/height must be > 0")
    ELSE IF c # 1 /\ c # 3 /\ c # 4
      THEN Thrown("Image: channels must be 1,3,4")
    ELSE Returned(Image(w, h, c, [i \in 1..(w * h * c) |-> 0]))

\* *(p + off) for p = in.data.data(): a read past the end of the vector is
\* undefined behaviour and yields the arbitrary byte g
Load(in, off, g) == IF off < Len(in.data) THEN in.data[off + 1] ELSE g

\* does a kernel that samples the source rows ys and columns xs read past the
\* end of in.data (the last byte it reads of pixel (sx, sy) is at offset
\* row_ptr(sy) + sx * channels + channels - 1)
ReadsPastEnd(in, ys, xs) ==
    \E sy \in ys, sx \in xs :
        row_ptr(in, sy) + sx * in.channels + in.channels > Len(in.data)


(***************************************************************************)
(* IEEE-754 binary64 ("double"), the arithmetic of the statistics and of   *)
(* the distortion metrics.  A double is <<s, m, e>> standing for           *)
(* s * m * 2^e: s is 1 or -1, m is a natural number kept as a sequence of  *)
(* 15-bit limbs, least significant first, with 2^52 <= m < 2^53, or the    *)
(* empty sequence for zero.  Every operation computes the exact result and *)
(* rounds it to nearest, ties to even.  The magnitudes handled (clock      *)
(* differences, byte differences and their squares) stay far from the      *)
(* subnormal and overflow ranges, which are not modelled; the NaN of 0/0   *)
(* is <<0, <<>>, 0>>.                                                      *)
(***************************************************************************)
Limb == 32768

BigHead(a) == IF a = <<>> THEN 0 ELSE Head(a)

BigTail(a) == IF a = <<>> THEN <<>> ELSE Tail(a)

\* without its leading zero limbs
RECURSIVE BigNorm(_)
BigNorm(a) ==
    IF a = <<>> THEN <<>>
    ELSE IF a[Len(a)] # 0 THEN a
    ELSE BigNorm(SubSeq(a, 1, Len(a) - 1))

RECURSIVE BigFromNat(_)
BigFromNat(n) == IF n = 0 THEN <<>> ELSE <<n % Limb>> \o BigFromNat(n \div Limb)

RECURSIVE BigZeros(_)
BigZeros(k) == IF k <= 0 THEN <<>> ELSE <<0>> \o BigZeros(k - 1)

RECURSIVE BigAddC(_, _, _)
BigAddStep(x, ta, tb) == <<x % Limb>> \o BigAddC(ta, tb, x \div Limb)

BigAddC(a, b, c) ==
    IF a = <<>> /\ b = <<>> THEN BigFromNat(c)
    ELSE BigAddStep(BigHead(a) + BigHead(b) + c, BigTail(a), BigTail(b))

BigAdd(a, b) == BigAddC(a, b, 0)

\* a - b - c for a >= b + c
RECURSIVE BigSubB(_, _, _)
BigSubStep(x, ta, tb) ==
    <<(x + Limb) % Limb>> \o BigSubB(ta, tb, IF x < 0 THEN 1 ELSE 0)

BigSubB(a, b, c) ==
    IF a = <<>> THEN <<>>
    ELSE BigSubStep(Head(a) - BigHead(b) - c, Tail(a), BigTail(b))

BigSub(a, b) == BigNorm(BigSubB(a, b, 0))

\* -1, 0 or 1 as a < b, a = b or a > b (both without leading zero limbs)
RECURSIVE BigCmpAt(_, _, _)
BigCmpAt(a, b, i) ==
    IF i = 0 THEN 0
    ELSE IF a[i] < b[i] THEN -1
    ELSE IF a[i] > b[i] THEN 1
    ELSE BigCmpAt(a, b, i - 1)

BigCmp(a, b) ==
    IF Len(a) < Len(b) THEN -1
    ELSE IF Len(a) > Len(b) THEN 1
    ELSE BigCmpAt(a, b, Len(a))

\* a * k + c for 0 <= k, c < 2^15
RECURSIVE BigMulSmallC(_, _, _)
BigMulSmallStep(x, ta, k) == <<x % Limb>> \o BigMulSmallC(ta, k, x \div Limb)

BigMulSmallC(a, k, c) ==
    IF a = <<>> THEN BigFromNat(c)
    ELSE BigMulSmallStep(Head(a) * k + c, Tail(a), k)

RECURSIVE BigMulRows(_, _)
BigMulRows(a, b) ==
    IF b = <<>> THEN <<>>
    ELSE BigAdd(BigMulSmallC(a, Head(b), 0), <<0>> \o BigMulRows(a, Tail(b)))

BigMul(a, b) == BigNorm(BigMulRows(a, b))

\* a * 2^n
BigShl(a, n) ==
    IF a = <<>> THEN <<>>
    ELSE BigZeros(n \div 15) \o BigMulSmallC(a, Pow2(n % 15), 0)

\* <<quotient, remainder>> of a by k, 0 < k <= 2^15, from limb i downwards
RECURSIVE BigDivAt(_, _, _, _, _)
BigDivAt(a, k, i, r, q) ==
    IF i = 0 THEN <<BigNorm(q), r>>
    ELSE BigDivAt(a, k, i - 1, (r * Limb + a[i]) % k, <<(r * Limb + a[i]) \div k>> \o q)

BigDivSmall(a, k) == BigDivAt(a, k, Len(a), 0, <<>>)

\* floor(a / 2^n)
BigShr(a, n) ==
    IF n \div 15 >= Len(a) THEN <<>>
    ELSE BigDivSmall(SubSeq(a, n \div 15 + 1, Len(a)), Pow2(n % 15))[1]

\* bit i of a
BigBit(a, i) ==
    IF i < 0 \/ i \div 15 >= Len(a) THEN 0
    ELSE (a[i \div 15 + 1] \div Pow2(i % 15)) % 2

\* are the n low bits of a all zero
BigLowZero(a, n) ==
    /\ \A j \in 1..Min(n \div 15, Len(a)) : a[j] = 0
    /\ (n \div 15 < Len(a)) => a[n \div 15 + 1] % Pow2(n % 15) = 0

BigBitLen(a) == IF a = <<>> THEN 0 ELSE 15 * (Len(a) - 1) + BitLen(a[Len(a)])

BigOdd(a) == a # <<>> /\ a[1] % 2 = 1

\* the largest digit d + k, k < 2^(b+1), with (r2 * 2^15 + digit) * digit <= rem
RECURSIVE BigSqrtDigit(_, _, _, _)
BigSqrtDigit(r2, rem, d, b) ==
    IF b < 0 THEN d
    ELSE IF BigCmp(BigMulSmallC(<<d + Pow2(b)>> \o r2, d + Pow2(b), 0), rem) <= 0
      THEN BigSqrtDigit(r2, rem, d + Pow2(b), b - 1)
      ELSE BigSqrtDigit(r2, rem, d, b - 1)

\* the square root taken as in long division, one limb of the root for
\* every two limbs of n, from the pair at limbs i, i + 1 downwards; root
\* and rem are those of the limbs above
RECURSIVE BigSqrtAt(_, _, _, _)
BigSqrtNext(n, i, root, r2, rem, d) ==
    BigSqrtAt(n, i - 2, BigNorm(<<d>> \o root),
              IF d = 0 THEN rem ELSE BigSub(rem, BigMulSmallC(<<d>> \o r2, d, 0)))

BigSqrtStep(n, i, root, r2, rem) ==
    BigSqrtNext(n, i, root, r2, rem, BigSqrtDigit(r2, rem, 0, 14))

BigSqrtAt(n, i, root, rem) ==
    IF i < 1 THEN <<root, rem>>
    ELSE BigSqrtStep(n, i, root, BigAdd(root, root), BigNorm(<<n[i], n[i + 1]>> \o rem))

\* <<floor(sqrt(n)), n - floor(sqrt(n))^2>>
BigSqrt(n) ==
    IF Len(n) % 2 = 1 THEN BigSqrtAt(n \o <<0>>, Len(n), <<>>, <<>>)
    ELSE BigSqrtAt(n, Len(n) - 1, <<>>, <<>>)

F64Zero == <<1, <<>>, 0>>

F64NaN == <<0, <<>>, 0>>

F64IsZero(x) == x[1] # 0 /\ x[2] = <<>>

F64IsNaN(x) == x[1] = 0

\* the mantissa q of bit length <= 53 after the rounding increment
F64Carry(s, q, e) ==
    IF BigBitLen(q) > 53 THEN <<s, BigShr(q, 1), e + 1>> ELSE <<s, q, e>>

\* drop the d low bits of m, rounding to nearest, ties to even; sticky: the
\* exact value lies strictly above m * 2^e
F64RoundAt(s, m, e, sticky, d, q) ==
    IF BigBit(m, d - 1) = 1 /\ (sticky \/ ~BigLowZero(m, d - 1) \/ BigOdd(q))
      THEN F64Carry(s, BigAdd(q, <<1>>), e + d)
      ELSE <<s, q, e + d>>

\* the double nearest to s * m * 2^e (or to a value just above it in
\* magnitude when sticky, for which m has more than 54 bits)
F64Round(s, m, e, sticky) ==
    IF m = <<>> THEN F64Zero
    ELSE IF BigBitLen(m) <= 53
      THEN <<s, BigShl(m, 53 - BigBitLen(m)), e - (53 - BigBitLen(m))>>
    ELSE F64RoundAt(s, m, e, sticky, BigBitLen(m) - 53, BigShr(m, BigBitLen(m) - 53))

\* static_cast<double>(n)
F64FromInt(n) == F64Round(IF n < 0 THEN -1 ELSE 1, BigFromNat(Abs(n)), 0, FALSE)

\* -x (the sign of a zero is not kept: -0.0 == 0.0)
F64Neg(x) == IF x[2] = <<>> THEN x ELSE <<-x[1], x[2], x[3]>>

\* the sum of two magnitudes a, b (times 2^e) with signs sa, sb
F64AddMag(sa, a, sb, b, e) ==
    IF sa = sb THEN F64Round(sa, BigAdd(a, b), e, FALSE)
    ELSE IF BigCmp(a, b) >= 0 THEN F64Round(sa, BigSub(a, b), e, FALSE)
    ELSE F64Round(sb, BigSub(b, a), e, FALSE)

F64AddAt(x, y, e) ==
    F64AddMag(x[1], BigShl(x[2], x[3] - e), y[1], BigShl(y[2], y[3] - e), e)

\* x + y
F64Add(x, y) ==
    IF F64IsNaN(x) \/ F64IsNaN(y) THEN F64NaN
    ELSE IF x[2] = <<>> THEN y
    ELSE IF y[2] = <<>> THEN x
    ELSE F64AddAt(x, y, Min(x[3], y[3]))

\* x - y
F64Sub(x, y) == F64Add(x, F64Neg(y))

\* x * y
F64Mul(x, y) ==
    IF F64IsNaN(x) \/ F64IsNaN(y) THEN F64NaN
    ELSE F64Round(x[1] * y[1], BigMul(x[2], y[2]), x[3] + y[3], FALSE)

F64DivQ(s, qr, e) == F64Round(s, qr[1], e, qr[2] # 0)

\* x / static_cast<double>(n) for an integer 0 <= n < 2^15; a finite x
\* divided by zero is an infinity, which no caller in the model produces,
\* and 0.0 / 0.0 is NaN
F64DivInt(x, n) ==
    IF F64IsNaN(x) \/ n = 0 THEN F64NaN
    ELSE F64DivQ(x[1], BigDivSmall(BigShl(x[2], 30), n), x[3] - 30)

F64SqrtQ(qr, e) == F64Round(1, qr[1], e, qr[2] # <<>>)

F64SqrtAt(x, p) == F64SqrtQ(BigSqrt(BigShl(x[2], p)), (x[3] - p) \div 2)

\* std::sqrt(x) for x >= 0
F64Sqrt(x) ==
    IF F64IsNaN(x) THEN F64NaN
    ELSE IF x[2] = <<>> THEN F64Zero
    ELSE F64SqrtAt(x, IF (x[3] - 58) % 2 = 0 THEN 58 ELSE 59)

\* -1, 0 or 1 as |x| < |y|, |x| = |y| or |x| > |y|
F64CmpMag(x, y) ==
    IF x[2] = <<>> THEN (IF y[2] = <<>> THEN 0 ELSE -1)
    ELSE IF y[2] = <<>> THEN 1
    ELSE IF x[3] < y[3] THEN -1
    ELSE IF x[3] > y[3] THEN 1
    ELSE BigCmp(x[2], y[2])

F64Sgn(x) == IF x[2] = <<>> THEN 0 ELSE x[1]

\* -1, 0 or 1 as x < y, x = y or x > y
F64Cmp(x, y) ==
    IF F64Sgn(x) # F64Sgn(y) THEN (IF F64Sgn(x) < F64Sgn(y) THEN -1 ELSE 1)
    ELSE F64Sgn(x) * F64CmpMag(x, y)

\* x < y, x <= y and x == y; every comparison with NaN is false
F64Less(x, y) == ~F64IsNaN(x) /\ ~F64IsNaN(y) /\ F64Cmp(x, y) < 0

F64Leq(x, y) == ~F64IsNaN(x) /\ ~F64IsNaN(y) /\ F64Cmp(x, y) <= 0

F64Eq(x, y) == ~F64IsNaN(x) /\ ~F64IsNaN(y) /\ F64Cmp(x, y) = 0
(***************************************************************************)
(* resize_sequential.cpp                                                   *)
(***************************************************************************)
\* a mapping that leaves out the final - 0.5f
map_coord_nohalf(out_coord, in_size, out_size) ==
    F32Mul(F32Add(out_coord, F32Half), F32Div(in_size, out_size))

\* map_coord(out_coord, in_size, out_size):
\* (out_coord + 0.5f) * (in_size / out_size) - 0.5f
map_coord(out_coord, in_size, out_size) ==
    F32Sub(F32Mul(F32Add(out_coord, F32Half), F32Div(in_size, out_size)), F32Half)

\* ix taken with std::floor instead of std::lround
nearest_ix_floor(in, out_w, x) ==
    clamp_int(F32Floor(map_coord(F32FromInt(x), F32FromInt(in.width), F32FromInt(out_w))),
              0, in.width - 1)

\* ix of resize_nearest for output column x:
\* clamp_int(static_cast<int>(std::lround(sx)), 0, in.width - 1)
nearest_ix(in, out_w, x) ==
    clamp_int(F32LRound(map_coord(F32FromInt(x), F32FromInt(in.width), F32FromInt(out_w))),
              0, in.width - 1)

\* iy of resize_nearest for output row y
nearest_iy(in, out_h, y) ==
    clamp_int(F32LRound(map_coord(F32FromInt(y), F32FromInt(in.height), F32FromInt(out_h))),
              0, in.height - 1)

\* the c loop of resize_nearest: dst[c] = src[c] with src at offset pix
nearest_pixel(in, pix, g) == [k \in 1..in.channels |-> Load(in, pix + (k - 1), g)]

\* the x loop of resize_nearest from column x on: the bytes copied to the
\* rest of an output row whose source row is iy
RECURSIVE nearest_pixels(_, _, _, _, _)
nearest_pixels(in, out_w, iy, x, g) ==
    IF x >= out_w THEN <<>>
    ELSE nearest_pixel(in, row_ptr(in, iy) + nearest_ix(in, out_w, x) * in.channels, g)
           \o nearest_pixels(in, out_w, iy, x + 1, g)

\* one iteration of the y loop of resize_nearest: the bytes of output row y
nearest_row(in, out_w, out_h, y, g) ==
    nearest_pixels(in, out_w, nearest_iy(in, out_h, y), 0, g)

RECURSIVE nearest_rows(_, _, _, _, _)
nearest_rows(in, out_w, out_h, y, g) ==
    IF y >= out_h THEN <<>>
    ELSE nearest_row(in, out_w, out_h, y, g) \o nearest_rows(in, out_w, out_h, y + 1, g)

\* `Image out(...)` followed by the loops that fill it
filled(ctor, bytes) ==
    IF ctor.status # "ok" THEN ctor ELSE [ctor EXCEPT !.img.data = bytes]

\* a kernel whose output buffer takes the size of the source
resize_nearest_insize(in, out_w, out_h, g) ==
    filled(ImageCtor(in.width, in.height, in.channels), nearest_rows(in, out_w, out_h, 0, g))

\* resize_nearest(in, out_w, out_h)
resize_nearest(in, out_w, out_h, g) ==
    filled(ImageCtor(out_w, out_h, in.channels), nearest_rows(in, out_w, out_h, 0, g))

\* x1 and wx of resize_bilinear from sx and x0
bilinear_x1wx(sx, x0, in_size) ==
    [i0 |-> x0, i1 |-> clamp_int(x0 + 1, 0, in_size - 1), w |-> F32Sub(sx, F32FromInt(x0))]

\* x0 = clamp_int(static_cast<int>(std::floor(sx)), 0, in_size - 1), then x1, wx
bilinear_x0(sx, in_size) ==
    bilinear_x1wx(sx, clamp_int(F32Floor(sx), 0, in_size - 1), in_size)

\* x0, x1, wx of resize_bilinear (as i0, i1, w) for output coordinate x along
\* an axis of in_size source and out_size output samples; y0, y1, wy likewise
bilinear_axis(x, in_size, out_size) ==
    bilinear_x0(map_coord(F32FromInt(x), F32FromInt(in_size), F32FromInt(out_size)), in_size)

\* an interpolation with the two weights exchanged
bilinear_lerp_swapped(a, b, w) == F32Add(b, F32Mul(w, F32Sub(a, b)))

\* v0 = v00 + wx * (v10 - v00), and v1 and v likewise
bilinear_lerp(a, b, w) == F32Add(a, F32Mul(w, F32Sub(b, a)))

\* v of resize_bilinear from the four neighbours and the two weights
bilinear_blend(p00, p10, p01, p11, wx, wy) ==
    bilinear_lerp(bilinear_lerp(F32FromInt(p00), F32FromInt(p10), wx),
                  bilinear_lerp(F32FromInt(p01), F32FromInt(p11), wx), wy)

\* p00[c], p10[c], p01[c], p11[c] for the taps ax, ay
bilinear_taps(in, ax, ay, c, g) ==
    <<Load(in, row_ptr(in, ay.i0) + ax.i0 * in.channels + c, g),
      Load(in, row_ptr(in, ay.i0) + ax.i1 * in.channels + c, g),
      Load(in, row_ptr(in, ay.i1) + ax.i0 * in.channels + c, g),
      Load(in, row_ptr(in, ay.i1) + ax.i1 * in.channels + c, g)>>

bilinear_blend_taps(t, wx, wy) == bilinear_blend(t[1], t[2], t[3], t[4], wx, wy)

\* the c loop of resize_bilinear: v for every channel of one output pixel
bilinear_pixel_v(in, ax, ay, g) ==
    [k \in 1..in.channels |->
        bilinear_blend_taps(bilinear_taps(in, ax, ay, k - 1, g), ax.w, ay.w)]

\* the x loop of resize_bilinear from column x on: v for every byte of the
\* rest of an output row whose vertical taps are ay
RECURSIVE bilinear_pixels_v(_, _, _, _, _)
bilinear_pixels_v(in, out_w, ay, x, g) ==
    IF x >= out_w THEN <<>>
    ELSE bilinear_pixel_v(in, bilinear_axis(x, in.width, out_w), ay, g)
           \o bilinear_pixels_v(in, out_w, ay, x + 1, g)

\* one iteration of the y loop of resize_bilinear: v for every byte of row y
bilinear_row_v(in, out_w, out_h, y, g) ==
    bilinear_pixels_v(in, out_w, bilinear_axis(y, in.height, out_h), 0, g)

\* a store that rounds down instead of to the nearest integer
bilinear_store_floor(vs) == [k \in DOMAIN vs |-> clamp_u8(F32Floor(vs[k]))]

\* dst[c] = clamp_u8(static_cast<int>(std::lround(v)))
bilinear_store(vs) == [k \in DOMAIN vs |-> clamp_u8(F32LRound(vs[k]))]

\* ... and the bytes stored in row y
bilinear_row(in, out_w, out_h, y, g) ==
    bilinear_store(bilinear_row_v(in, out_w, out_h, y, g))

RECURSIVE bilinear_rows(_, _, _, _, _)
bilinear_rows(in, out_w, out_h, y, g) ==
    IF y >= out_h THEN <<>>
    ELSE bilinear_row(in, out_w, out_h, y, g) \o bilinear_rows(in, out_w, out_h, y + 1, g)

\* resize_bilinear(in, out_w, out_h)
resize_bilinear(in, out_w, out_h, g) ==
    filled(ImageCtor(out_w, out_h, in.channels), bilinear_rows(in, out_w, out_h, 0, g))

\* the precondition checks of resize_seq: the message thrown, "" when none
resize_seq_checks(in, out_w, out_h) ==
    IF empty(in) THEN "resize_seq: input image is empty"
    ELSE IF out_w <= 0 \/ out_h <= 0 THEN "resize_seq: output size must be > 0"
    ELSE IF in.channels # 1 /\ in.channels # 3 /\ in.channels # 4
      THEN "resize_seq: supported channels are 1,3,4"
    ELSE ""

\* the switch of resize_seq
resize_seq_kernel(in, out_w, out_h, method, g) ==
    IF method = "Nearest" THEN resize_nearest(in, out_w, out_h, g)
    ELSE resize_bilinear(in, out_w, out_h, g)

resize_seq_throw(msg, in, out_w, out_h, method, g) ==
    IF msg # "" THEN Thrown(msg) ELSE resize_seq_kernel(in, out_w, out_h, method, g)

\* resize_seq(in, out_w, out_h, method)
resize_seq(in, out_w, out_h, method, g) ==
    resize_seq_throw(resize_seq_checks(in, out_w, out_h), in, out_w, out_h, method, g)

\* the two source rows (columns) an output row (column) blends
bilinear_span(a) == {a.i0, a.i1}

\* the source rows the kernel samples for output row y
seq_rows(in, out_h, method, y) ==
    IF method = "Nearest" THEN {nearest_iy(in, out_h, y)}
    ELSE bilinear_span(bilinear_axis(y, in.height, out_h))

\* the source columns the kernel samples for output column x
seq_cols(in, out_w, method, x) ==
    IF method = "Nearest" THEN {nearest_ix(in, out_w, x)}
    ELSE bilinear_span(bilinear_axis(x, in.width, out_w))

\* does resize_seq, past its checks, read past the end of in.data; the
\* indices are clamped into the declared width and height, so only a data
\* vector shorter than width * height * channels makes it happen
seq_reads_past_end(in, out_w, out_h, method) ==
    /\ Len(in.data) < in.width * in.height * in.channels
    /\ ReadsPastEnd(in, UNION {seq_rows(in, out_h, method, y) : y \in 0..(out_h - 1)},
                        UNION {seq_cols(in, out_w, method, x) : x \in 0..(out_w - 1)})

(***************************************************************************)
(* resize_openmp.cpp                                                       *)
(***************************************************************************)
\* a mapping of pixel corners instead of pixel centres
map_coord_omp_corner(out_coord, in_size, out_size) ==
    F32Mul(out_coord, F32Div(in_size, out_size))

\* the file's own copy of map_coord
map_coord_omp(out_coord, in_size, out_size) ==
    F32Sub(F32Mul(F32Add(out_coord, F32Half), F32Div(in_size, out_size)), F32Half)

\* ix of resize_nearest_omp for output column x
nearest_omp_ix(in, out_w, x) ==
    clamp_int(F32LRound(map_coord_omp(F32FromInt(x), F32FromInt(in.width), F32FromInt(out_w))),
              0, in.width - 1)

\* iy of resize_nearest_omp for output row y
nearest_omp_iy(in, out_h, y) ==
    clamp_int(F32LRound(map_coord_omp(F32FromInt(y), F32FromInt(in.height), F32FromInt(out_h))),
              0, in.height - 1)

\* the c loop of resize_nearest_omp
nearest_omp_pixel(in, pix, g) == [k \in 1..in.channels |-> Load(in, pix + (k - 1), g)]

\* the x loop of resize_nearest_omp from column x on, source row iy
RECURSIVE nearest_omp_pixels(_, _, _, _, _)
nearest_omp_pixels(in, out_w, iy, x, g) ==
    IF x >= out_w THEN <<>>
    ELSE nearest_omp_pixel(in, row_ptr(in, iy) + nearest_omp_ix(in, out_w, x) * in.channels, g)
           \o nearest_omp_pixels(in, out_w, iy, x + 1, g)

\* body of the parallel y loop of resize_nearest_omp: the bytes of row y
nearest_omp_row(in, out_w, out_h, y, g) ==
    nearest_omp_pixels(in, out_w, nearest_omp_iy(in, out_h, y), 0, g)

\* x1 and wx of resize_bilinear_omp from sx and x0
bilinear_omp_x1wx(sx, x0, in_size) ==
    [i0 |-> x0, i1 |-> clamp_int(x0 + 1, 0, in_size - 1), w |-> F32Sub(sx, F32FromInt(x0))]

bilinear_omp_x0(sx, in_size) ==
    bilinear_omp_x1wx(sx, clamp_int(F32Floor(sx), 0, in_size - 1), in_size)

\* x0, x1, wx (y0, y1, wy) as resize_bilinear_omp derives them
bilinear_omp_axis(x, in_size, out_size) ==
    bilinear_omp_x0(map_coord_omp(F32FromInt(x), F32FromInt(in_size), F32FromInt(out_size)),
                    in_size)

\* v0 = v00 + wx * (v10 - v00), and v1 and v likewise
bilinear_omp_lerp(a, b, w) == F32Add(a, F32Mul(w, F32Sub(b, a)))

\* v of resize_bilinear_omp from the four neighbours and the two weights
bilinear_omp_blend(p00, p10, p01, p11, wx, wy) ==
    bilinear_omp_lerp(bilinear_omp_lerp(F32FromInt(p00), F32FromInt(p10), wx),
                      bilinear_omp_lerp(F32FromInt(p01), F32FromInt(p11), wx), wy)

\* p00[c], p10[c], p01[c], p11[c] for the taps ax, ay
bilinear_omp_taps(in, ax, ay, c, g) ==
    <<Load(in, row_ptr(in, ay.i0) + ax.i0 * in.channels + c, g),
      Load(in, row_ptr(in, ay.i0) + ax.i1 * in.channels + c, g),
      Load(in, row_ptr(in, ay.i1) + ax.i0 * in.channels + c, g),
      Load(in, row_ptr(in, ay.i1) + ax.i1 * in.channels + c, g)>>

bilinear_omp_blend_taps(t, wx, wy) == bilinear_omp_blend(t[1], t[2], t[3], t[4], wx, wy)

\* the c loop of resize_bilinear_omp: v for every channel of one output pixel
bilinear_omp_pixel_v(in, ax, ay, g) ==
    [k \in 1..in.channels |->
        bilinear_omp_blend_taps(bilinear_omp_taps(in, ax, ay, k - 1, g), ax.w, ay.w)]

\* the x loop of resize_bilinear_omp from column x on, vertical taps ay
RECURSIVE bilinear_omp_pixels_v(_, _, _, _, _)
bilinear_omp_pixels_v(in, out_w, ay, x, g) ==
    IF x >= out_w THEN <<>>
    ELSE bilinear_omp_pixel_v(in, bilinear_omp_axis(x, in.width, out_w), ay, g)
           \o bilinear_omp_pixels_v(in, out_w, ay, x + 1, g)

\* body of the parallel y loop of resize_bilinear_omp: v for every byte of
\* row y
bilinear_omp_row_v(in, out_w, out_h, y, g) ==
    bilinear_omp_pixels_v(in, out_w, bilinear_omp_axis(y, in.height, out_h), 0, g)

\* dst[c] = clamp_u8(static_cast<int>(std::lround(v)))
bilinear_omp_store(vs) == [k \in DOMAIN vs |-> clamp_u8(F32LRound(vs[k]))]

bilinear_omp_row(in, out_w, out_h, y, g) ==
    bilinear_omp_store(bilinear_omp_row_v(in, out_w, out_h, y, g))

\* the body of the parallel loop of the kernel chosen by resize_omp's switch
omp_row(in, out_w, out_h, method, y, g) ==
    IF method = "Nearest" THEN nearest_omp_row(in, out_w, out_h, y, g)
    ELSE bilinear_omp_row(in, out_w, out_h, y, g)

\* checks that reject the output size only when both sides are non-positive
resize_omp_checks_both(in, out_w, out_h) ==
    IF empty(in) THEN "resize_omp: input image is empty"
    ELSE IF out_w <= 0 /\ out_h <= 0 THEN "resize_omp: output size must be > 0"
    ELSE ""

\* the precondition checks of resize_omp: the message thrown, "" when none
resize_omp_checks(in, out_w, out_h) ==
    IF empty(in) THEN "resize_omp: input image is empty"
    ELSE IF out_w <= 0 \/ out_h <= 0 THEN "resize_omp: output size must be > 0"
    ELSE ""

\* if (threads > 0) omp_set_num_threads(threads): the value of nthreads-var
\* the parallel region then forks with
omp_set_num_threads(threads, icv) == IF threads > 0 THEN threads ELSE icv

\* blocks of q + 1 iterations that begin q apart and so overlap
static_chunk_overlap(q, t, i) == [lo |-> q * i, hi |-> q * i + q + 1]

\* the blocks of schedule(static): n iterations, nthr threads, q = n div nthr
\* and t = n mod nthr; thread i runs the contiguous iterations lo .. hi-1
static_chunk(q, t, i) ==
    IF i < t THEN [lo |-> (q + 1) * i, hi |-> (q + 1) * i + q + 1]
    ELSE [lo |-> q * i + t, hi |-> q * i + t + q]

\* blocks of n div nthr iterations that leave the remainder to nobody
static_block_floor(n, nthr, i) ==
    [lo |-> (n \div nthr) * i, hi |-> (n \div nthr) * (i + 1)]

\* #pragma omp parallel for schedule(static)
static_block(n, nthr, i) == static_chunk(n \div nthr, n % nthr, i)

\* dst[c] = ... for every pixel of row y, dst = out.row_ptr(y) + x * out.channels
store_at(o, base, bytes) ==
    [o EXCEPT !.data = [i \in 1..Len(o.data) |->
        IF i > base /\ i <= base + Len(bytes) THEN bytes[i - base] ELSE o.data[i]]]

\* a store through the pointer of the following row
store_row_next(o, y, bytes) == store_at(o, row_ptr(o, y + 1), bytes)

store_row(o, y, bytes) == store_at(o, row_ptr(o, y), bytes)

\* the source rows and columns the OpenMP kernels sample
omp_span(a) == {a.i0, a.i1}

omp_rows(in, out_h, method, y) ==
    IF method = "Nearest" THEN {nearest_omp_iy(in, out_h, y)}
    ELSE omp_span(bilinear_omp_axis(y, in.height, out_h))

omp_cols(in, out_w, method, x) ==
    IF method = "Nearest" THEN {nearest_omp_ix(in, out_w, x)}
    ELSE omp_span(bilinear_omp_axis(x, in.width, out_w))

\* does the loop body for output row y read past the end of in.data
omp_reads_past_end(in, out_w, out_h, method, y) ==
    /\ Len(in.data) < in.width * in.height * in.channels
    /\ ReadsPastEnd(in, omp_rows(in, out_h, method, y),
                        UNION {omp_cols(in, out_w, method, x) : x \in 0..(out_w - 1)})

(***************************************************************************)
(* validate.cpp                                                            *)
(***************************************************************************)
\* the largest element of a set of naturals, 0 for the empty set
SetMax(S) == IF S = {} THEN 0 ELSE CHOOSE m \in S : \A n \in S : n <= m

\* a loop that stops one position early
compare_loop_short(a, b, idx) ==
    [status |-> "ok",
     different_values |->
         Cardinality({i \in idx : i < Len(a.data) /\ a.data[i] # b.data[i]}),
     max_abs_diff |->
         SetMax({Abs(a.data[i] - b.data[i]) : i \in {j \in idx : j < Len(a.data)}})]

\* the loop of compare_images over the positions idx of a.data
compare_loop(a, b, idx) ==
    [status |-> "ok",
     different_values |-> Cardinality({i \in idx : a.data[i] # b.data[i]}),
     max_abs_diff |-> SetMax({Abs(a.data[i] - b.data[i]) : i \in idx})]

\* a comparison that checks the buffer sizes only
compare_images_sizeonly(a, b) ==
    IF Len(a.data) # Len(b.data)
      THEN [status |-> "compare_images: buffer size mismatch",
            different_values |-> 0, max_abs_diff |-> 0]
    ELSE compare_loop(a, b, 1..Len(a.data))

\* compare_images(a, b)
compare_images(a, b) ==
    IF a.width # b.width \/ a.height # b.height \/ a.channels # b.channels
      THEN [status |-> "compare_images: size/channels mismatch",
            different_values |-> 0, max_abs_diff |-> 0]
    ELSE IF Len(a.data) # Len(b.data)
      THEN [status |-> "compare_images: buffer size mismatch",
            different_values |-> 0, max_abs_diff |-> 0]
    ELSE compare_loop(a, b, 1..Len(a.data))

(***************************************************************************)
(* The specification's error classes                                       *)
(***************************************************************************)
\* the class of the specification's taxonomy an exception message stands
\* for (the code throws std::invalid_argument for all of them); an error
\* of Image's constructor is the construction error, InvalidShape
ErrorKind(what) ==
    IF what \in {"resize_seq: input image is empty", "resize_omp: input image is empty",
                "down_up_metrics: empty source image",
                "down_up_metrics: invalid downscale size",
                "diff_metrics: empty images"}
      THEN "InvalidInput"
    ELSE IF what \in {"resize_seq: output size must be > 0",
                      "resize_omp: output size must be > 0"}
      THEN "InvalidDimensions"
    ELSE IF what \in {"resize_seq: supported channels are 1,3,4",
                      "Image: channels must be 1,3,4",
                      "Image: width/height must be > 0"}
      THEN "InvalidShape"
    ELSE IF what \in {"compare_images: size/channels mismatch",
                      "diff_metrics: image sizes/channels must match"}
      THEN "ShapeMismatch"
    ELSE "other"


(***************************************************************************)
(* benchmark.cpp: the statistics                                           *)
(***************************************************************************)
\* for (double x : v) s += x, from element i on
RECURSIVE mean_sum(_, _, _)
mean_sum(v, i, s) ==
    IF i > Len(v) THEN s ELSE mean_sum(v, i + 1, F64Add(s, v[i]))

\* mean(v); 0.0 / 0.0, NaN, for an empty v
mean(v) == F64DivInt(mean_sum(v, 1, F64Zero), Len(v))

\* d * d
stddev_square(d) == F64Mul(d, d)

\* for (double x : v) { d = x - mu; s2 += d * d; }, from element i on
RECURSIVE stddev_sum(_, _, _, _)
stddev_sum(v, mu, i, s2) ==
    IF i > Len(v) THEN s2
    ELSE stddev_sum(v, mu, i + 1, F64Add(s2, stddev_square(F64Sub(v[i], mu))))

\* the standard deviation with the denominator n
stddev_population(v, mu) ==
    IF Len(v) < 2 THEN F64Zero
    ELSE F64Sqrt(F64DivInt(stddev_sum(v, mu, 1, F64Zero), Len(v)))

\* stddev_sample(v, mu)
stddev_sample(v, mu) ==
    IF Len(v) < 2 THEN F64Zero
    ELSE F64Sqrt(F64DivInt(stddev_sum(v, mu, 1, F64Zero), Len(v) - 1))

\* std::min_element over a non-empty v: the index of the first smallest
\* element, found with operator<
RECURSIVE min_element(_, _, _)
min_element(v, i, best) ==
    IF i > Len(v) THEN best
    ELSE min_element(v, i + 1, IF F64Less(v[i], v[best]) THEN i ELSE best)

\* std::max_element over a non-empty v: the index of the first largest
RECURSIVE max_element(_, _, _)
max_element(v, i, best) ==
    IF i > Len(v) THEN best
    ELSE max_element(v, i + 1, IF F64Less(v[best], v[i]) THEN i ELSE best)

BenchResult(runs, mean_ms, stddev_ms, min_ms, max_ms) ==
    [runs |-> runs, mean_ms |-> mean_ms, stddev_ms |-> stddev_ms,
     min_ms |-> min_ms, max_ms |-> max_ms]

\* BenchResult r{}
NoBenchResult == BenchResult(0, F64Zero, F64Zero, F64Zero, F64Zero)

bench_stats(runs, samples, mu, lo, hi) ==
    BenchResult(runs, mu, stddev_sample(samples, mu), lo, hi)

\* the reduction at the end of benchmark_resize for a non-empty samples
bench_reduce(runs, samples) ==
    bench_stats(runs, samples, mean(samples),
                samples[min_element(samples, 2, 1)],
                samples[max_element(samples, 2, 1)])

\* a sample that is the time of the whole batch
bench_elapsed_total(d, inner_reps) == F64FromInt(d)

\* const double elapsed = (t1 - t0) / inner_reps, for two clock readings
\* d ticks apart; a tick is the spacing of the doubles at the magnitude of
\* now_ms(), so that t1 - t0 is exact
bench_elapsed(d, inner_reps) == F64DivInt(F64FromInt(d), inner_reps)

(***************************************************************************)
(* scaling_attacks.cpp                                                     *)
(***************************************************************************)
\* the rows y, y+1, ... of the output as the iterations of the parallel loop
\* store them: each iteration writes its own row from the source alone
RECURSIVE omp_join(_, _, _, _, _)
omp_join(in, out_w, out_h, method, y) ==
    IF y >= out_h THEN <<>>
    ELSE omp_row(in, out_w, out_h, method, y, 0) \o omp_join(in, out_w, out_h, method, y + 1)

omp_value_throw(msg, in, out_w, out_h, method) ==
    IF msg # "" THEN Thrown(msg)
    ELSE filled(ImageCtor(out_w, out_h, in.channels), omp_join(in, out_w, out_h, method, 0))

\* what resize_omp returns or throws in a build with OpenMP
resize_omp_value(in, out_w, out_h, method) ==
    omp_value_throw(resize_omp_checks(in, out_w, out_h), in, out_w, out_h, method)

\* what resize_omp returns or throws in a build without OpenMP
resize_omp_fallback(msg, in, out_w, out_h, method) ==
    IF msg # "" THEN Thrown(msg) ELSE resize_seq(in, out_w, out_h, method, 0)

\* what resize(in, out_w, out_h, method, backend, threads) returns or throws
\* for a source whose data has the length of its shape
resize_value(in, out_w, out_h, method, backend, openmp) ==
    IF backend = "Sequential" THEN resize_seq(in, out_w, out_h, method, 0)
    ELSE IF openmp THEN resize_omp_value(in, out_w, out_h, method)
    ELSE resize_omp_fallback(resize_omp_checks(in, out_w, out_h), in, out_w, out_h, method)

AttackMetrics(mae, rmse, psnr, max_abs) ==
    [mae |-> mae, rmse |-> rmse, psnr |-> psnr, max_abs |-> max_abs]

\* AttackMetrics m
NoMetrics == AttackMetrics(F64Zero, F64Zero, [infinite |-> FALSE, mse |-> F64Zero], 0)

\* sum_abs after the loop, from element i on.  The double holds an integer
\* below 2^53 at every step, so that each += is exact
RECURSIVE diff_sum_abs(_, _, _)
diff_sum_abs(a, b, i) ==
    IF i > Len(a.data) THEN 0
    ELSE Abs(a.data[i] - b.data[i]) + diff_sum_abs(a, b, i + 1)

\* sum_sq after the loop, from element i on (exact in the same way)
RECURSIVE diff_sum_sq(_, _, _)
diff_sum_sq(a, b, i) ==
    IF i > Len(a.data) THEN 0
    ELSE (a.data[i] - b.data[i]) * (a.data[i] - b.data[i]) + diff_sum_sq(a, b, i + 1)

\* max_abs after the loop
diff_max_abs(a, b) == SetMax({Abs(a.data[i] - b.data[i]) : i \in 1..Len(a.data)})

\* a psnr that is never infinite
diff_psnr_finite(mse) == [infinite |-> FALSE, mse |-> mse]

\* m.psnr: infinity when mse == 0.0, else 20.0 * std::log10(255.0) -
\* 10.0 * std::log10(mse), a finite double for every positive finite mse
diff_psnr(mse) ==
    IF F64IsZero(mse) THEN [infinite |-> TRUE, mse |-> mse]
    ELSE [infinite |-> FALSE, mse |-> mse]

diff_of_mse(mean_abs, mse, max_abs) ==
    AttackMetrics(mean_abs, F64Sqrt(mse), diff_psnr(mse), max_abs)

\* mean_abs, mse, rmse, psnr and max_abs from the sums over n values
diff_of_sums(sum_abs, sum_sq, max_abs, n) ==
    diff_of_mse(F64DivInt(F64FromInt(sum_abs), n), F64DivInt(F64FromInt(sum_sq), n), max_abs)

MetricsThrown(what, resizes) ==
    [status |-> "thrown", what |-> what, m |-> NoMetrics, resizes |-> resizes]

MetricsReturned(m, resizes) ==
    [status |-> "ok", what |-> "", m |-> m, resizes |-> resizes]

\* diff_metrics(a, b), for b.data at least as long as a.data; resizes: the
\* calls of resize made before it
diff_metrics(a, b, resizes) ==
    IF a.width # b.width \/ a.height # b.height \/ a.channels # b.channels
      THEN MetricsThrown("diff_metrics: image sizes/channels must match", resizes)
    ELSE IF Len(a.data) = 0
      THEN MetricsThrown("diff_metrics: empty images", resizes)
    ELSE MetricsReturned(diff_of_sums(diff_sum_abs(a, b, 1), diff_sum_sq(a, b, 1),
                                      diff_max_abs(a, b), Len(a.data)),
                         resizes)

\* checks that leave the downscale size to resize
down_up_checks_emptyonly(src_img, down_w, down_h) ==
    IF empty(src_img) THEN "down_up_metrics: empty source image" ELSE ""

\* the precondition checks of down_up_metrics: the message thrown, "" when none
down_up_checks(src_img, down_w, down_h) ==
    IF empty(src_img) THEN "down_up_metrics: empty source image"
    ELSE IF down_w <= 0 \/ down_h <= 0 THEN "down_up_metrics: invalid downscale size"
    ELSE ""

\* return diff_metrics(src, up)
down_up_diff(src_img, up) ==
    IF up.status # "ok" THEN MetricsThrown(up.what, 2)
    ELSE diff_metrics(src_img, up.img, 2)

\* Image up = resize(down, src.width, src.height, up_method, backend, threads)
down_up_second(src_img, down, up_method, backend, openmp) ==
    IF down.status # "ok" THEN MetricsThrown(down.what, 1)
    ELSE down_up_diff(src_img, resize_value(down.img, src_img.width, src_img.height,
                                            up_method, backend, openmp))

down_up_throw(msg, src_img, down_w, down_h, down_method, up_method, backend, openmp) ==
    IF msg # "" THEN MetricsThrown(msg, 0)
    ELSE down_up_second(src_img,
                        resize_value(src_img, down_w, down_h, down_method, backend, openmp),
                        up_method, backend, openmp)

\* down_up_metrics(src, down_w, down_h, down_method, up_method, backend, threads)
down_up_metrics(src_img, down_w, down_h, down_method, up_method, backend, openmp) ==
    down_up_throw(down_up_checks(src_img, down_w, down_h),
                  src_img, down_w, down_h, down_method, up_method, backend, openmp)
(***************************************************************************)
(* The callers' inputs                                                     *)
(***************************************************************************)
Methods == {"Nearest", "Bilinear"}

Backends == {"Sequential", "OpenMP"}

ThreadCounts == {0, 1, 2, 8}

OutWidths == -1..MaxOutW

OutHeights == -1..MaxOutH

DimArgs == -1..MaxDim

ChanArgs == -1..5

\* the sample pixel patterns
Seeds == {1}

\* what a read past the end of the source vector may yield
Garbage == {0, 255}

\* byte at offset i of the sample buffer number s
SampleByte(s, i) == (s * 100 + 77 * i) % 256

SampleData(n, s) == [i \in 1..n |-> SampleByte(s, i - 1)]

\* buffers as load_image builds them: Image(w, h, c) filled with pixel bytes
ValidImages ==
    { Image(w, h, c, SampleData(w * h * c, s)) :
        w \in 1..MaxDim, h \in 1..MaxDim, c \in {1, 3, 4}, s \in Seeds }

\* the all-zero 4x4, 3-channel buffer
ZeroImage == Image(4, 4, 3, [i \in 1..48 |-> 0])

\* buffers only a caller that sets the public members by hand can build
MalformedImages ==
    { DefaultImage,
      Image(1, 1, 1, <<>>),
      Image(1, 1, 0, <<7>>),
      Image(1, 1, 2, <<10, 20>>),
      Image(2, 1, 2, <<10, 20, 30, 40>>),
      Image(1, 1, 5, <<1, 2, 3, 4, 5>>),
      Image(2, 2, 1, <<0, 255, 100>>),
      Image(2, 1, 3, <<0, 255, 100>>),
      Image(1, 1, 1, <<100, 200>>) }

WellFormed(img) ==
    /\ img.width > 0 /\ img.height > 0 /\ img.channels \in {1, 3, 4}
    /\ Len(img.data) = img.width * img.height * img.channels

(***************************************************************************)
(* State                                                                   *)
(***************************************************************************)
VARIABLES
    have_openmp,   \* the build: HAVE_OPENMP
    src,           \* the caller's source buffer
    nthreads_var,  \* OpenMP's process-wide nthreads-var (omp_set_num_threads)
    pc,            \* "idle", "parallel", "returned" or "aborted"
    call,          \* the arguments of the call in progress
    out,           \* the local `Image out` of resize_*_omp
    team,          \* number of threads of the parallel region
    written,       \* output rows whose loop iteration has completed
    result,        \* what the call returned or threw
    effects,       \* what the call did so far
    bench,         \* the frame of benchmark_resize, when it is the caller
    csv            \* the CSV file append_csv_row is given

vars == <<have_openmp, src, nthreads_var, pc, call, out, team, written, result,
          effects, bench, csv>>

NoCall == [op |-> "none", method |-> "Nearest", backend |-> "Sequential",
           out_w |-> 0, out_h |-> 0, threads |-> 0, c |-> 0]

NoResult == [status |-> "none", what |-> "", img |-> DefaultImage]

\* the process was killed by a read of unmapped memory
Crashed == [status |-> "crash", what |-> "", img |-> DefaultImage]

\* alloc: an output vector was allocated; forked: size of the team started;
\* pixels: output pixels computed
Effects(a, f, p) == [alloc |-> a, forked |-> f, pixels |-> p]

NoEffects == Effects(FALSE, 0, 0)

\* no benchmark_resize call in progress.  pc: "none", "calling" (about to
\* call resize), "waiting" (inside resize) or "done"; phase, i, k: the loop
\* the frame is in and its counters; warm, timed: resize invocations
\* started so far by the warmup loop and by the measured loop; active:
\* invocations started that have not returned; res: what it returned or threw
NoBench ==
    [pc |-> "none", method |-> "Nearest", backend |-> "Sequential",
     out_w |-> 0, out_h |-> 0, threads |-> 0, warmup |-> 0, runs |-> 0,
     inner_reps |-> 0, phase |-> "warmup", i |-> 0, k |-> 0, samples |-> <<>>,
     warm |-> 0, timed |-> 0, active |-> 0,
     res |-> [status |-> "none", what |-> "", r |-> NoBenchResult]]

\* a file that does not exist.  exists, readable, writable: whether the
\* path names a file and whether it can be opened for reading and for
\* appending; lines: its content; was_missing, headers, rows: whether it
\* was missing at the start, and the headers and rows of the calls that
\* wrote to it, in call order
NoFile ==
    [exists |-> FALSE, readable |-> FALSE, writable |-> TRUE, lines |-> <<>>,
     was_missing |-> TRUE, headers |-> {}, rows |-> <<>>]

Init ==
    /\ have_openmp \in BOOLEAN
    /\ src \in ValidImages \cup {ZeroImage} \cup MalformedImages
    /\ nthreads_var = DefaultThreads
    /\ pc = "idle"
    /\ call = NoCall
    /\ out = DefaultImage
    /\ team = 0
    /\ written = {}
    /\ result = NoResult
    /\ effects = NoEffects
    /\ bench = NoBench
    /\ csv = NoFile

(***************************************************************************)
(* Operations                                                              *)
(***************************************************************************)
\* the call ends: it returns or throws r
Return(r, e) ==
    /\ result' = r
    /\ effects' = e
    /\ pc' = "returned"

\* resize_seq past the checks that gave msg; ub: it reads past the end of
\* the source vector, which yields arbitrary bytes or kills the process
SeqBody(msg, ub, method, ow, oh) ==
    IF msg # "" THEN Return(Thrown(msg), NoEffects)
    ELSE \E g \in (IF ub THEN Garbage ELSE {0}) :
           \/ Return(resize_seq(src, ow, oh, method, g), Effects(TRUE, 0, ow * oh))
           \/ /\ ub
              /\ result' = Crashed
              /\ effects' = Effects(TRUE, 0, 0)
              /\ pc' = "aborted"

\* resize_seq run to its end (also reached from resize_omp in a build without
\* OpenMP, after the checks of resize_omp gave pre)
RunSeq(method, ow, oh, pre) ==
    /\ UNCHANGED <<nthreads_var, out, team, written>>
    /\ SeqBody(IF pre # "" THEN pre ELSE resize_seq_checks(src, ow, oh),
               pre = "" /\ resize_seq_checks(src, ow, oh) = ""
                        /\ seq_reads_past_end(src, ow, oh, method),
               method, ow, oh)

\* resize_*_omp from `Image out(...)` to the fork of the parallel region
OmpFork(ctor, nthr) ==
    IF ctor.status # "ok"
      THEN /\ Return(ctor, Effects(TRUE, 0, 0))
           /\ UNCHANGED <<nthreads_var, out, team, written>>
    ELSE /\ nthreads_var' = nthr
         /\ team' = nthr
         /\ out' = ctor.img
         /\ written' = {}
         /\ effects' = Effects(TRUE, nthr, 0)
         /\ pc' = "parallel"
         /\ UNCHANGED result

\* resize_omp in a build with OpenMP, up to the start of the parallel region
RunOmp(msg, ow, oh, threads) ==
    IF msg # ""
      THEN /\ Return(Thrown(msg), NoEffects)
           /\ UNCHANGED <<nthreads_var, out, team, written>>
    ELSE OmpFork(ImageCtor(ow, oh, src.channels), omp_set_num_threads(threads, nthreads_var))

\* resize(in, out_w, out_h, method, backend, threads)
Resize(method, backend, ow, oh, threads) ==
    /\ pc = "idle"
    /\ call' = [op |-> "resize", method |-> method, backend |-> backend,
                out_w |-> ow, out_h |-> oh, threads |-> threads, c |-> 0]
    /\ UNCHANGED <<have_openmp, src>>
    /\ IF backend = "OpenMP" /\ have_openmp
         THEN RunOmp(resize_omp_checks(src, ow, oh), ow, oh, threads)
         ELSE RunSeq(method, ow, oh,
                     IF backend = "OpenMP" THEN resize_omp_checks(src, ow, oh) ELSE "")

\* rows of thread t's block that it has not computed yet
Todo(t) ==
    { y \in static_block(call.out_h, team, t).lo..(static_block(call.out_h, team, t).hi - 1) :
        y \notin written }

SetMin(S) == CHOOSE y \in S : \A z \in S : y <= z

\* one iteration y of the parallel loop
RowBody(y, ub) ==
    \E g \in (IF ub THEN Garbage ELSE {0}) :
        \/ /\ out' = store_row(out, y, omp_row(src, call.out_w, call.out_h, call.method, y, g))
           /\ written' = written \cup {y}
           /\ effects' = [effects EXCEPT !.pixels = @ + call.out_w]
           /\ UNCHANGED <<pc, result>>
        \/ /\ ub
           /\ pc' = "aborted"
           /\ result' = Crashed
           /\ UNCHANGED <<out, written, effects>>

RowOf(y) == RowBody(y, omp_reads_past_end(src, call.out_w, call.out_h, call.method, y))

\* a thread that starts only when the next thread of the team is done
Runnable_waiting(t) == Todo(t) # {} /\ Todo((t + 1) % team) = {}

\* thread t has an iteration of its block left to run; it waits for nothing
Runnable(t) == Todo(t) # {}

\* thread t of the team runs its next loop iteration
WorkerRow(t) ==
    /\ pc = "parallel"
    /\ Runnable(t)
    /\ RowOf(SetMin(Todo(t)))
    /\ UNCHANGED <<have_openmp, src, nthreads_var, call, team>>

\* a return that does not wait at the barrier (a loop with nowait)
Join_nowait ==
    /\ pc = "parallel"
    /\ result' = Returned(out)
    /\ out' = DefaultImage
    /\ pc' = "returned"
    /\ UNCHANGED <<have_openmp, src, nthreads_var, call, team, written, effects>>

\* the implicit barrier at the end of the parallel loop, then `return out`
Join ==
    /\ pc = "parallel"
    /\ \A t \in 0..(team - 1) : Todo(t) = {}
    /\ result' = Returned(out)
    /\ out' = DefaultImage
    /\ pc' = "returned"
    /\ UNCHANGED <<have_openmp, src, nthreads_var, call, team, written, effects>>

\* a caller constructs Image(w, h, c)
Construct(w, h, c) ==
    /\ pc = "idle"
    /\ call' = [op |-> "Image", method |-> "Nearest", backend |-> "Sequential",
                out_w |-> w, out_h |-> h, threads |-> 0, c |-> c]
    /\ Return(ImageCtor(w, h, c), Effects(TRUE, 0, 0))
    /\ UNCHANGED <<have_openmp, src, nthreads_var, out, team, written>>

\* the caller is done with what the call returned (`Image out` of the
\* caller's loop body goes out of scope, the exception has been handled)
Discard ==
    /\ pc = "returned"
    /\ pc' = "idle"
    /\ call' = NoCall
    /\ result' = NoResult
    /\ effects' = NoEffects
    /\ team' = 0
    /\ written' = {}
    /\ UNCHANGED <<have_openmp, src, nthreads_var, out>>

ThreadArgs(backend) == IF backend = "OpenMP" THEN ThreadCounts ELSE {0}

\* the program calls resize and Image(w, h, c) itself
Next ==
    \/ \E m \in Methods, b \in Backends, ow \in OutWidths, oh \in OutHeights :
         \E n \in ThreadArgs(b) : Resize(m, b, ow, oh, n) /\ UNCHANGED <<bench, csv>>
    \/ \E t \in 0..(team - 1) : WorkerRow(t) /\ UNCHANGED <<bench, csv>>
    \/ Join /\ UNCHANGED <<bench, csv>>
    \/ \E w \in DimArgs, h \in DimArgs, c \in ChanArgs :
         Construct(w, h, c) /\ UNCHANGED <<bench, csv>>
    \/ Discard /\ UNCHANGED <<bench, csv>>

Spec == Init /\ [][Next]_vars

TypeOK ==
    /\ pc \in {"idle", "parallel", "returned", "aborted"}
    /\ team \in {0} \cup ThreadCounts \cup {DefaultThreads}
    /\ result.status \in {"none", "ok", "thrown", "crash"}


(***************************************************************************)
(* append_csv_row on one CSV file                                          *)
(***************************************************************************)
File(exists, readable, writable, lines) ==
    [exists |-> exists, readable |-> readable, writable |-> writable,
     lines |-> lines, was_missing |-> ~exists, headers |-> {}, rows |-> <<>>]

\* std::ifstream in(csv_path, std::ios::binary); in.good(): the open
\* succeeds when the file exists and may be read by the process
ifstream_good(f) == f.exists /\ f.readable

\* write_header: the file cannot be opened for reading, or seekg to its
\* end gives position 0
write_header(f) == IF ~ifstream_good(f) THEN TRUE ELSE f.lines = <<>>

\* the lines `out << header_if_new << "\n"` and `out << row << "\n"` append
appended(f, header, row) ==
    (IF write_header(f) /\ header # "" THEN <<header>> ELSE <<>>) \o <<row>>

\* the file after append_csv_row(csv_path, header_if_new, row) has opened
\* it with std::ios::app, which creates a missing file (readable by the
\* process that created it), and written to it
append_csv_row(f, header, row) ==
    [f EXCEPT !.exists = TRUE,
              !.readable = IF f.exists THEN @ ELSE TRUE,
              !.lines = @ \o appended(f, header, row),
              !.headers = @ \cup {header},
              !.rows = Append(@, row)]

\* the files the path may name at the start: none, an empty one, one with
\* a header and a row, one line of another program; with or without the
\* permission to read and to write (to create, for a missing file)
CsvFiles ==
    {File(FALSE, FALSE, w, <<>>) : w \in BOOLEAN} \cup
    {File(TRUE, r, w, l) : r \in BOOLEAN, w \in BOOLEAN,
                           l \in {<<>>, <<"h">>, <<"h", "r1">>, <<"old">>}}

Headers == {"", "h"}

Rows == {"r1", "r2"}

\* a caller appends a row
AppendCsvRow(header, row) ==
    /\ pc = "idle"
    /\ Len(csv.lines) <= MaxLines
    /\ call' = [op |-> "append_csv_row", header |-> header, row |-> row]
    /\ IF ~csv.writable
         THEN /\ result' = [status |-> "thrown",
                            what |-> "append_csv_row: cannot open file: ", img |-> DefaultImage]
              /\ UNCHANGED csv
         ELSE /\ result' = [status |-> "ok", what |-> "", img |-> DefaultImage]
              /\ csv' = append_csv_row(csv, header, row)
    /\ pc' = "returned"
    /\ UNCHANGED <<have_openmp, src, nthreads_var, out, team, written, effects, bench>>

CsvInit ==
    /\ have_openmp \in BOOLEAN
    /\ src = DefaultImage
    /\ nthreads_var = DefaultThreads
    /\ pc = "idle"
    /\ call = NoCall
    /\ out = DefaultImage
    /\ team = 0
    /\ written = {}
    /\ result = NoResult
    /\ effects = NoEffects
    /\ bench = NoBench
    /\ csv \in CsvFiles

\* Discard with the file left as it is
CsvDiscard ==
    /\ Discard
    /\ UNCHANGED <<bench, csv>>

CsvNext ==
    \/ \E h \in Headers, r \in Rows : AppendCsvRow(h, r)
    \/ CsvDiscard

CsvSpec == CsvInit /\ [][CsvNext]_vars

(***************************************************************************)
(* resize under a scheduler that runs the threads of a team                *)
(***************************************************************************)
\* the source buffers: a gray pixel and a 2x2 RGB buffer
LiveImages == {Image(1, 1, 1, <<100>>), Image(2, 2, 3, SampleData(12, 1))}

\* the team sizes asked for: the default, one, two, and more than rows
LiveThreads(backend) == IF backend = "OpenMP" THEN {0, 1, 2, 8} ELSE {0}

LiveInit ==
    /\ have_openmp \in BOOLEAN
    /\ src \in LiveImages
    /\ nthreads_var = DefaultThreads
    /\ pc = "idle"
    /\ call = NoCall
    /\ out = DefaultImage
    /\ team = 0
    /\ written = {}
    /\ result = NoResult
    /\ effects = NoEffects
    /\ bench = NoBench
    /\ csv = NoFile

LiveNext ==
    \/ \E m \in Methods, b \in Backends, ow \in {1, MaxOutW}, oh \in 1..MaxOutH :
         \E n \in LiveThreads(b) : Resize(m, b, ow, oh, n) /\ UNCHANGED <<bench, csv>>
    \/ \E t \in 0..(team - 1) : WorkerRow(t) /\ UNCHANGED <<bench, csv>>
    \/ Join /\ UNCHANGED <<bench, csv>>
    \/ Discard /\ UNCHANGED <<bench, csv>>

\* thread t completes its next loop iteration (a WorkerRow(t) step, seen
\* through the set of completed rows)
RowDone(t) ==
    /\ pc = "parallel"
    /\ Runnable(t)
    /\ written' = written \cup {SetMin(Todo(t))}

\* the threads of a team are scheduled: a thread that has an iteration
\* left completes it, and the barrier opens once no thread has one left
LiveSpec ==
    /\ LiveInit /\ [][LiveNext]_vars
    /\ \A t \in 0..7 : WF_written(RowDone(t))
    /\ WF_vars(Join /\ UNCHANGED <<bench, csv>>)

(***************************************************************************)
(* benchmark_resize                                                        *)
(***************************************************************************)
Warmups == -1..MaxWarmup

RunCounts == -1..MaxRuns

InnerReps == {0, 1, MaxReps}

\* t1 - t0 of the two now_ms() readings around a batch, in ticks
Ticks == {1, 2}

\* output sizes the harness is called with
BenchWidths == {0, 1}

BenchHeights == {0, 2}

BenchThreads(backend) == IF backend = "OpenMP" THEN {0, 2} ELSE {0}

\* the buffers the harness is called with: a 1x1 gray pixel, an empty buffer
BenchImages == {Image(1, 1, 1, <<100>>), DefaultImage}

\* what *samples.end() may yield when samples is empty
GarbageMs == {F64Zero, F64FromInt(1)}

\* benchmark_resize ends: it throws what, is killed, or returns r
BenchThrown(b, what) ==
    [b EXCEPT !.pc = "done",
              !.res = [status |-> "thrown", what |-> what, r |-> NoBenchResult]]

BenchCrashed(b) ==
    [b EXCEPT !.pc = "done",
              !.res = [status |-> "crash", what |-> "", r |-> NoBenchResult]]

BenchReturned(b, r) ==
    [b EXCEPT !.pc = "done", !.res = [status |-> "ok", what |-> "", r |-> r]]

\* the code after the measured loop.  With no sample, mean divides 0.0 by
\* 0.0 and std::min_element, std::max_element return samples.end(), whose
\* dereference is undefined: the process is killed or reads arbitrary values
bench_finish(b) ==
    IF b.samples = <<>>
      THEN {BenchCrashed(b)} \cup
           { BenchReturned(b, BenchResult(b.runs, F64NaN, F64Zero, lo, hi)) :
               lo \in GarbageMs, hi \in GarbageMs }
      ELSE {BenchReturned(b, bench_reduce(b.runs, b.samples))}

\* the frame at the head of the measured loop with counter i
bench_timed(b, i) ==
    IF i < b.runs
      THEN {[b EXCEPT !.pc = "calling", !.phase = "timed", !.i = i, !.k = 0]}
      ELSE bench_finish(b)

\* a harness without its warmup loop
bench_warmup_skipped(b, i) == bench_timed(b, 0)

\* the frame at the head of the warmup loop with counter i
bench_warmup(b, i) ==
    IF i < b.warmup
      THEN {[b EXCEPT !.pc = "calling", !.phase = "warmup", !.i = i, !.k = 0]}
      ELSE bench_timed(b, 0)

\* benchmark_resize from its entry to its first call of resize:
\* samples.reserve(runs) takes runs as a size_t and throws
\* std::length_error when it is negative
bench_enter(b) ==
    IF b.runs < 0 THEN {BenchThrown(b, "vector::reserve")}
    ELSE bench_warmup(b, 0)

\* the frame after the call of resize at (phase, i, k) has returned
bench_after(b) ==
    IF b.k + 1 < b.inner_reps
      THEN {[b EXCEPT !.pc = "calling", !.k = @ + 1]}
    ELSE IF b.phase = "warmup" THEN bench_warmup(b, b.i + 1)
    ELSE UNION { bench_timed([b EXCEPT !.samples =
                                 Append(@, bench_elapsed(d, b.inner_reps))],
                             b.i + 1) : d \in Ticks }

\* benchmark_resize(img, out_w, out_h, method, backend, threads, warmup,
\* runs, inner_reps) is called and runs up to its first call of resize
BenchCall(method, backend, ow, oh, threads, warmup, runs, reps) ==
    /\ bench.pc = "none"
    /\ pc = "idle"
    /\ bench' \in bench_enter(
         [NoBench EXCEPT !.method = method, !.backend = backend, !.out_w = ow,
                         !.out_h = oh, !.threads = threads, !.warmup = warmup,
                         !.runs = runs,
                         !.inner_reps = IF reps <= 0 THEN 1 ELSE reps])
    /\ UNCHANGED <<have_openmp, src, nthreads_var, pc, call, out, team,
                   written, result, effects, csv>>

\* Image out = resize(img, out_w, out_h, method, backend, threads)
BenchInvoke ==
    /\ bench.pc = "calling"
    /\ Resize(bench.method, bench.backend, bench.out_w, bench.out_h, bench.threads)
    /\ bench' = [bench EXCEPT
                   !.pc = "waiting",
                   !.warm = IF bench.phase = "warmup" THEN @ + 1 ELSE @,
                   !.timed = IF bench.phase = "timed" THEN @ + 1 ELSE @,
                   !.active = @ + 1]
    /\ UNCHANGED csv

\* the call of resize has returned or thrown: `out` is destroyed and the
\* loops go on up to the next call of resize or to the end; an exception
\* of resize leaves benchmark_resize
BenchResume ==
    /\ bench.pc = "waiting"
    /\ pc = "returned"
    /\ pc' = "idle"
    /\ call' = NoCall
    /\ result' = NoResult
    /\ effects' = NoEffects
    /\ team' = 0
    /\ written' = {}
    /\ bench' \in (IF result.status = "thrown"
                     THEN {BenchThrown([bench EXCEPT !.active = @ - 1], result.what)}
                     ELSE bench_after([bench EXCEPT !.active = @ - 1]))
    /\ UNCHANGED <<have_openmp, src, nthreads_var, out, csv>>

\* the caller is done with what benchmark_resize returned
BenchDiscard ==
    /\ bench.pc = "done"
    /\ bench.res.status # "crash"
    /\ bench' = NoBench
    /\ UNCHANGED <<have_openmp, src, nthreads_var, pc, call, out, team,
                   written, result, effects, csv>>

BenchInit ==
    /\ have_openmp \in BOOLEAN
    /\ src \in BenchImages
    /\ nthreads_var = DefaultThreads
    /\ pc = "idle"
    /\ call = NoCall
    /\ out = DefaultImage
    /\ team = 0
    /\ written = {}
    /\ result = NoResult
    /\ effects = NoEffects
    /\ bench = NoBench
    /\ csv = NoFile

\* the program calls benchmark_resize
BenchNext ==
    \/ \E m \in Methods, b \in Backends, ow \in BenchWidths, oh \in BenchHeights :
         \E n \in BenchThreads(b), w \in Warmups, r \in RunCounts, k \in InnerReps :
            BenchCall(m, b, ow, oh, n, w, r, k)
    \/ BenchInvoke
    \/ \E t \in 0..(team - 1) : WorkerRow(t) /\ UNCHANGED <<bench, csv>>
    \/ Join /\ UNCHANGED <<bench, csv>>
    \/ BenchResume
    \/ BenchDiscard

BenchSpec == BenchInit /\ [][BenchNext]_vars

(***************************************************************************)
(* compare_images and down_up_metrics                                      *)
(***************************************************************************)
\* a buffer of the shape of a with every byte v
Filled(a, v) == [a EXCEPT !.data = [i \in 1..Len(a.data) |-> v]]

\* a with its first byte changed by one
Bumped(a) ==
    IF a.data = <<>> THEN a ELSE [a EXCEPT !.data[1] = (@ + 1) % 256]

\* the buffers a is compared with: itself, buffers of its shape with other
\* bytes, one of its shape with a byte too many, and buffers of other shapes
CompareWith(a) ==
    {a, Filled(a, 0), Filled(a, 255), Bumped(a), [a EXCEPT !.data = @ \o <<0>>]}
        \cup {b \in ValidImages : b.channels = 1} \cup {DefaultImage}

DownWidths == -1..MaxDim

DownHeights == -1..MaxDim

MetricThreads(backend) == IF backend = "OpenMP" THEN {0, 2} ELSE {0}

\* the buffers the two functions are called on: valid ones and empty ones
MetricImages == ValidImages \cup {ZeroImage, DefaultImage, Image(1, 1, 1, <<>>)}

\* DiffStats returned by compare_images, or the exception it throws
CompareResult(s) ==
    [status |-> IF s.status = "ok" THEN "ok" ELSE "thrown",
     what |-> IF s.status = "ok" THEN "" ELSE s.status,
     stats |-> [different_values |-> s.different_values,
                max_abs_diff |-> s.max_abs_diff]]

\* compare_images(src, b)
Compare(b) ==
    /\ pc = "idle"
    /\ call' = [op |-> "compare_images", b |-> b]
    /\ result' = CompareResult(compare_images(src, b))
    /\ pc' = "returned"
    /\ UNCHANGED <<have_openmp, src, nthreads_var, out, team, written, effects, bench, csv>>

\* down_up_metrics(src, down_w, down_h, down_method, up_method, backend,
\* threads), its two calls of resize included; a call of resize_omp that
\* passes its checks in a build with OpenMP sets nthreads-var.  src is a
\* buffer whose data has the length of its shape, or an empty one.
DownUp(down_w, down_h, down_method, up_method, backend, threads) ==
    /\ pc = "idle"
    /\ call' = [op |-> "down_up_metrics", down_w |-> down_w, down_h |-> down_h,
                down_method |-> down_method, up_method |-> up_method,
                backend |-> backend, threads |-> threads]
    /\ result' = down_up_metrics(src, down_w, down_h, down_method, up_method,
                                 backend, have_openmp)
    /\ nthreads_var' = IF backend = "OpenMP" /\ have_openmp
                          /\ down_up_checks(src, down_w, down_h) = ""
                         THEN omp_set_num_threads(threads, nthreads_var)
                         ELSE nthreads_var
    /\ pc' = "returned"
    /\ UNCHANGED <<have_openmp, src, out, team, written, effects, bench, csv>>

MetricsInit ==
    /\ have_openmp \in BOOLEAN
    /\ src \in MetricImages
    /\ nthreads_var = DefaultThreads
    /\ pc = "idle"
    /\ call = NoCall
    /\ out = DefaultImage
    /\ team = 0
    /\ written = {}
    /\ result = NoResult
    /\ effects = NoEffects
    /\ bench = NoBench
    /\ csv = NoFile

\* the program calls compare_images and down_up_metrics
MetricsNext ==
    \/ \E b \in CompareWith(src) : Compare(b)
    \/ \E dw \in DownWidths, dh \in DownHeights, dm \in Methods, um \in Methods,
          bk \in Backends :
         \E n \in MetricThreads(bk) : DownUp(dw, dh, dm, um, bk, n)
    \/ Discard /\ UNCHANGED <<bench, csv>>

MetricsSpec == MetricsInit /\ [][MetricsNext]_vars

(***************************************************************************)
(* The program as a whole: resize, compare_images, down_up_metrics and     *)
(* benchmark_resize called one after another on the same source buffer     *)
(***************************************************************************)
\* the source buffers: a gray pixel, a 2x2 RGB buffer, an empty buffer
ProgramImages ==
    {Image(1, 1, 1, <<100>>), Image(2, 2, 3, SampleData(12, 1)), DefaultImage}

\* output sizes of the calls: invalid, reducing, enlarging
ProgramWidths == {0, 1, MaxOutW}

ProgramHeights == {0, 1, MaxOutH}

ProgramThreads(backend) == IF backend = "OpenMP" THEN {0, 2} ELSE {0}

ProgramInit ==
    /\ have_openmp \in BOOLEAN
    /\ src \in ProgramImages
    /\ nthreads_var = DefaultThreads
    /\ pc = "idle"
    /\ call = NoCall
    /\ out = DefaultImage
    /\ team = 0
    /\ written = {}
    /\ result = NoResult
    /\ effects = NoEffects
    /\ bench = NoBench
    /\ csv = NoFile

\* main calls the four operations in any order; a call made by
\* benchmark_resize returns to benchmark_resize
ProgramNext ==
    \/ \E m \in Methods, b \in Backends, ow \in ProgramWidths, oh \in ProgramHeights :
         \E n \in ProgramThreads(b) :
            bench.pc = "none" /\ Resize(m, b, ow, oh, n) /\ UNCHANGED <<bench, csv>>
    \/ \E t \in 0..(team - 1) : WorkerRow(t) /\ UNCHANGED <<bench, csv>>
    \/ Join /\ UNCHANGED <<bench, csv>>
    \/ \E b \in {src, Bumped(src), DefaultImage} :
         bench.pc = "none" /\ Compare(b)
    \/ \E dw \in ProgramWidths, dh \in ProgramHeights, dm \in Methods, um \in Methods,
          bk \in Backends :
         \E n \in ProgramThreads(bk) :
            bench.pc = "none" /\ DownUp(dw, dh, dm, um, bk, n)
    \/ bench.pc = "none" /\ Discard /\ UNCHANGED <<bench, csv>>
    \/ \E m \in Methods, b \in Backends, ow \in ProgramWidths, oh \in ProgramHeights :
         \E n \in ProgramThreads(b), w \in {0, 1}, r \in {1, 2} :
            BenchCall(m, b, ow, oh, n, w, r, 1)
    \/ BenchInvoke
    \/ BenchResume
    \/ BenchDiscard

ProgramSpec == ProgramInit /\ [][ProgramNext]_vars

(***************************************************************************)
(* Element and row access: Image::at and Image::row_ptr called by hand     *)
(***************************************************************************)
\* the index at(x, y, c) hands to data[...]: the casts to size_t and the
\* products are taken modulo 2^64, so the index is n = (y * width + x) *
\* channels + c when n >= 0 and 2^64 + n, far past the end, when n < 0
at_index(img, x, y, c) == (y * img.width + x) * img.channels + c

\* at(x, y, c) returns data[index] unchecked: inside the vector it is the
\* byte at that index, whichever pixel it belongs to; outside the vector it
\* is undefined behaviour, an arbitrary byte g or a crash
at_access(img, x, y, c, g) ==
    IF at_index(img, x, y, c) >= 0 /\ at_index(img, x, y, c) < Len(img.data)
      THEN [status |-> "ok", what |-> "", index |-> at_index(img, x, y, c),
            value |-> img.data[at_index(img, x, y, c) + 1]]
    ELSE [status |-> "ub", what |-> "", index |-> at_index(img, x, y, c), value |-> g]

\* row_ptr(y) returns data.data() + y * width * channels unchecked
row_ptr_access(img, y) ==
    [status |-> "ok", what |-> "", index |-> row_ptr(img, y), value |-> 0]

AccessXs == -1..MaxDim

AccessYs == -1..MaxDim

AccessCs == -1..4

\* a caller reads at(x, y, c) of the source
At(x, y, c) ==
    /\ pc = "idle"
    /\ call' = [op |-> "at", x |-> x, y |-> y, c |-> c]
    /\ \E g \in Garbage :
         \/ /\ result' = at_access(src, x, y, c, g)
            /\ pc' = "returned"
         \/ /\ at_access(src, x, y, c, g).status = "ub"
            /\ result' = [at_access(src, x, y, c, g) EXCEPT !.status = "crash"]
            /\ pc' = "aborted"
    /\ UNCHANGED <<have_openmp, src, nthreads_var, out, team, written, effects, bench, csv>>

\* a caller takes row_ptr(y) of the source
RowPtr(y) ==
    /\ pc = "idle"
    /\ call' = [op |-> "row_ptr", x |-> 0, y |-> y, c |-> 0]
    /\ result' = row_ptr_access(src, y)
    /\ pc' = "returned"
    /\ UNCHANGED <<have_openmp, src, nthreads_var, out, team, written, effects, bench, csv>>

AccessInit ==
    /\ have_openmp \in BOOLEAN
    /\ src \in ValidImages
    /\ nthreads_var = DefaultThreads
    /\ pc = "idle"
    /\ call = NoCall
    /\ out = DefaultImage
    /\ team = 0
    /\ written = {}
    /\ result = NoResult
    /\ effects = NoEffects
    /\ bench = NoBench
    /\ csv = NoFile

AccessNext ==
    \/ \E x \in AccessXs, y \in AccessYs, c \in AccessCs : At(x, y, c)
    \/ \E y \in AccessYs : RowPtr(y)
    \/ Discard /\ UNCHANGED <<bench, csv>>

AccessSpec == AccessInit /\ [][AccessNext]_vars

(***************************************************************************)
(* The gradient scenario: the 2x2 gray buffer [0, 255, 0, 255] enlarged    *)
(***************************************************************************)
GradientImage == Image(2, 2, 1, <<0, 255, 0, 255>>)

\* the output sizes of the scenario: the source's own up to the double
ScenarioSizes == {2, 3, 4}

ScenarioInit ==
    /\ have_openmp \in BOOLEAN
    /\ src = GradientImage
    /\ nthreads_var = DefaultThreads
    /\ pc = "idle"
    /\ call = NoCall
    /\ out = DefaultImage
    /\ team = 0
    /\ written = {}
    /\ result = NoResult
    /\ effects = NoEffects
    /\ bench = NoBench
    /\ csv = NoFile

ScenarioNext ==
    \/ \E m \in Methods, b \in Backends, ow \in ScenarioSizes, oh \in ScenarioSizes :
         \E n \in ThreadArgs(b) : Resize(m, b, ow, oh, n) /\ UNCHANGED <<bench, csv>>
    \/ \E t \in 0..(team - 1) : WorkerRow(t) /\ UNCHANGED <<bench, csv>>
    \/ Join /\ UNCHANGED <<bench, csv>>
    \/ Discard /\ UNCHANGED <<bench, csv>>

ScenarioSpec == ScenarioInit /\ [][ScenarioNext]_vars
(***************************************************************************)
(* The claims                                                              *)
(***************************************************************************)
\* a resize call has returned to its caller
ResizeReturned == pc = "returned" /\ call.op = "resize"

\* the call's arguments are valid: a well-formed source, a positive size
ValidCall == WellFormed(src) /\ call.out_w > 0 /\ call.out_h > 0

\* the call ran the kernels of resize_openmp.cpp
RanOmp == call.backend = "OpenMP" /\ have_openmp

\* r and s are returned buffers that compare_images finds equal
SameBytes(r, s) ==
    /\ r.status = "ok"
    /\ s.status = "ok"
    /\ compare_images(r.img, s.img) =
         [status |-> "ok", different_values |-> 0, max_abs_diff |-> 0]

\* C1: for a valid source, a positive output size, either kernel and a
\* thread count of 1, 2 or 8, what resize returns with Backend::OpenMP is a
\* buffer that compare_images finds byte-identical (different_values = 0)
\* to the one resize_seq returns for the same arguments.
C1_OmpEqualsSeq ==
    (ResizeReturned /\ ValidCall /\ call.backend = "OpenMP" /\ call.threads \in {1, 2, 8})
        => SameBytes(result, resize_seq(src, call.out_w, call.out_h, call.method, 0))

\* a Bilinear resize of a 2x2 source to 3x2 returned by a team of 2
C1_Witness ==
    /\ ResizeReturned /\ ValidCall /\ RanOmp
    /\ call.method = "Bilinear" /\ call.threads = 2 /\ team = 2
    /\ src.width = 2 /\ src.height = 2 /\ call.out_w = 3 /\ call.out_h = 2
    /\ result.status = "ok"
    /\ written = {0, 1}

\* the bytes a single worker running the loop body for y, y+1, ... stores
RECURSIVE omp_rows_from(_, _, _, _, _)
omp_rows_from(in, out_w, out_h, method, y) ==
    IF y >= out_h THEN <<>>
    ELSE omp_row(in, out_w, out_h, method, y, 0)
           \o omp_rows_from(in, out_w, out_h, method, y + 1)

\* bytes is what o holds from offset base on
HoldsAt(o, base, bytes) == \A i \in 1..Len(bytes) : o.data[base + i] = bytes[i]

\* C2: in a RowParallel call on valid arguments every row a worker has
\* completed holds the bytes the loop body gives for (source, size, kernel,
\* row), and the buffer returned is the one a single worker computing the
\* rows in order produces, whatever the team's size and whichever the order
\* in which the workers ran their rows.
C2_ScheduleIndependent ==
    (call.op = "resize" /\ ValidCall /\ RanOmp)
        => /\ pc = "parallel" =>
                \A y \in written :
                    HoldsAt(out, row_ptr(out, y),
                            omp_row(src, call.out_w, call.out_h, call.method, y, 0))
           /\ pc = "returned" =>
                /\ result.status = "ok"
                /\ Len(result.img.data) = call.out_w * call.out_h * src.channels
                /\ HoldsAt(result.img, 0,
                           omp_rows_from(src, call.out_w, call.out_h, call.method, 0))

\* two rows split over a team of 2, the second thread's row done first
C2_Witness ==
    /\ pc = "parallel" /\ ValidCall /\ RanOmp
    /\ team = 2 /\ call.out_h = 2 /\ written = {1}
    /\ src.height = 2 /\ call.method = "Bilinear"

\* a Bilinear resize of a valid source has returned a buffer
BilinearReturned ==
    ResizeReturned /\ ValidCall /\ call.method = "Bilinear" /\ result.status = "ok"

\* the output pixels and the channels of the call
OutXs == 0..(call.out_w - 1)

OutYs == 0..(call.out_h - 1)

Chans == 0..(src.channels - 1)

\* v, before rounding, of channel c of output pixel (x, y) as the kernel the
\* call ran computes it
BlendedOmp(x, y, c) ==
    bilinear_omp_row_v(src, call.out_w, call.out_h, y, 0)[x * src.channels + c + 1]

BlendedSeq(x, y, c) ==
    bilinear_row_v(src, call.out_w, call.out_h, y, 0)[x * src.channels + c + 1]

Blended(x, y, c) == IF RanOmp THEN BlendedOmp(x, y, c) ELSE BlendedSeq(x, y, c)

\* p00, p10, p01, p11 of channel c of output pixel (x, y)
NeighboursOf(t) == {t[1], t[2], t[3], t[4]}

Neighbours(x, y, c) ==
    NeighboursOf(bilinear_taps(src, bilinear_axis(x, src.width, call.out_w),
                               bilinear_axis(y, src.height, call.out_h), c, 0))

\* the float v lies between the smallest and the largest member of S
Between(v, S) ==
    /\ \E p \in S : F32GeqInt(v, p)
    /\ \E p \in S : F32LeqInt(v, p)

\* C3: for every output pixel and channel of a Bilinear resize, on both
\* backends, the blended value before rounding lies between the smallest and
\* the largest of the four source neighbours, also where the mapped source
\* coordinate is below 0 or above in_dim - 1.
C3_NoExtrapolation ==
    BilinearReturned =>
        \A y \in OutYs, x \in OutXs, c \in Chans :
            Between(Blended(x, y, c), Neighbours(x, y, c))

\* The formulas of the specification in exact arithmetic: a rational is a
\* pair <<n, d>> with d > 0.
\* round half away from zero of n / d
RoundHalfAway(q) ==
    IF q[1] >= 0 THEN (2 * q[1] + q[2]) \div (2 * q[2])
    ELSE -((2 * (-q[1]) + q[2]) \div (2 * q[2]))

\* (x + 0.5) * (in_size / out_size) - 0.5
SpecCoord(x, in_size, out_size) == <<(2 * x + 1) * in_size - out_size, 2 * out_size>>

\* x0 = clamp(floor(sx), 0, in_size - 1)
SpecX0(sx, in_size) == clamp_int(sx[1] \div sx[2], 0, in_size - 1)

\* x0, x1 = clamp(x0 + 1, 0, in_size - 1) and wx = sx - x0
SpecTaps(sx, x0, in_size) ==
    [i0 |-> x0, i1 |-> clamp_int(x0 + 1, 0, in_size - 1), w |-> <<sx[1] - x0 * sx[2], sx[2]>>]

SpecAxis(x, in_size, out_size) ==
    SpecTaps(SpecCoord(x, in_size, out_size),
             SpecX0(SpecCoord(x, in_size, out_size), in_size), in_size)

\* lerp(a, b, w) = a + w * (b - a), a and b over the same denominator
SpecLerp(a, b, w) == <<a[1] * w[2] + w[1] * (b[1] - a[1]), a[2] * w[2]>>

\* v = lerp(lerp(p00, p10, wx), lerp(p01, p11, wx), wy) of channel c
SpecBlend(in, ax, ay, c) ==
    SpecLerp(SpecLerp(<<at(in, ax.i0, ay.i0, c), 1>>, <<at(in, ax.i1, ay.i0, c), 1>>, ax.w),
             SpecLerp(<<at(in, ax.i0, ay.i1, c), 1>>, <<at(in, ax.i1, ay.i1, c), 1>>, ax.w),
             ay.w)

\* clamp(round(v), 0, 255) for channel c of output pixel (x, y)
SpecBilinear(x, y, c) ==
    clamp_int(RoundHalfAway(SpecBlend(src, SpecAxis(x, src.width, call.out_w),
                                      SpecAxis(y, src.height, call.out_h), c)),
              0, 255)

\* C4: for every output pixel (x, y) and channel, Bilinear on either
\* backend stores clamp(round(v), 0, 255) for v = lerp(lerp(p00, p10, wx),
\* lerp(p01, p11, wx), wy) with x0, x1, wx and y0, y1, wy derived from the
\* mapped coordinates as stated; the byte stored is in 0..255 and is never
\* the wrapped-around low byte of a v outside that range.
C4_BilinearClampedRound ==
    BilinearReturned =>
        \A y \in OutYs, x \in OutXs, c \in Chans :
            /\ at(result.img, x, y, c) = SpecBilinear(x, y, c)
            /\ at(result.img, x, y, c) \in 0..255

\* a Bilinear result with a pixel whose v rounds to more than 255 and is
\* stored as 255
C4_Witness ==
    /\ BilinearReturned
    /\ \E y \in OutYs, x \in OutXs, c \in Chans :
           /\ F32LRound(Blended(x, y, c)) > 255
           /\ at(result.img, x, y, c) = 255

\* a Nearest resize of a valid source has returned a buffer
NearestReturned ==
    ResizeReturned /\ ValidCall /\ call.method = "Nearest" /\ result.status = "ok"

\* ix = clamp(round_half_away_from_zero((x + 0.5) * (in_w / out_w) - 0.5), 0, in_w - 1)
SpecNearest(x, in_size, out_size) ==
    clamp_int(RoundHalfAway(SpecCoord(x, in_size, out_size)), 0, in_size - 1)

\* C5: for every output pixel (x, y), Nearest on either backend copies
\* every channel byte unchanged from the source pixel (ix, iy), ix and iy
\* being the mapped coordinates rounded half away from zero and clamped into
\* the source; every output pixel therefore equals a source pixel.
C5_NearestCopiesPixel ==
    NearestReturned =>
        \A y \in OutYs, x \in OutXs, c \in Chans :
            at(result.img, x, y, c) =
                at(src, SpecNearest(x, src.width, call.out_w),
                        SpecNearest(y, src.height, call.out_h), c)

\* the all-zero 4x4, 3-channel buffer resized to 2x2 is all zero
C5_Witness ==
    /\ NearestReturned
    /\ src = ZeroImage /\ call.out_w = 2 /\ call.out_h = 2
    /\ result.img = Image(2, 2, 3, [i \in 1..12 |-> 0])

\* C6: Nearest resampling of a valid W x H buffer to W x H, on any backend,
\* returns a buffer with exactly the bytes of the input.
C6_NearestSameSizeIdentity ==
    (ResizeReturned /\ ValidCall /\ call.method = "Nearest"
        /\ call.out_w = src.width /\ call.out_h = src.height)
        => result.status = "ok" /\ result.img = src

\* a 2x2, 4-channel source resized to 2x2 by an OpenMP team
C6_Witness ==
    /\ NearestReturned /\ RanOmp
    /\ src.width = 2 /\ src.height = 2 /\ src.channels = 4
    /\ call.out_w = 2 /\ call.out_h = 2
    /\ result.img = src

\* C7: the number of workers of a RowParallel call is fixed by that call's
\* threads argument alone: threads = k > 0 gives k workers and threads = 0
\* the runtime's default, whatever calls were made before.
C7_ThreadsPerCall ==
    (call.op = "resize" /\ RanOmp /\ effects.forked > 0)
        => team = (IF call.threads > 0 THEN call.threads ELSE DefaultThreads)

\* the input buffer is empty or its data length is not width*height*channels
Malformed(img) ==
    empty(img) \/ Len(img.data) # img.width * img.height * img.channels

\* C8: a resize call on an empty or malformed input buffer, on either
\* backend, fails with InvalidInput before any worker is started or any
\* source byte is read, and returns no buffer (stated for the calls whose
\* output size is valid, so that no other check can be the one that fails).
C8_MalformedRejected ==
    (call.op = "resize" /\ Malformed(src) /\ call.out_w > 0 /\ call.out_h > 0)
        => /\ pc = "returned"
           /\ result.status = "thrown"
           /\ ErrorKind(result.what) = "InvalidInput"
           /\ effects = NoEffects

\* a resize call with a non-positive output width or height has ended
BadSizeCall == call.op = "resize" /\ (call.out_w <= 0 \/ call.out_h <= 0)

\* C9 as stated: a resize call with out_w <= 0 or out_h <= 0 fails with
\* InvalidDimensions before any allocation, pixel or worker.
C9_AsStated ==
    BadSizeCall
        => /\ pc = "returned"
           /\ result.status = "thrown"
           /\ ErrorKind(result.what) = "InvalidDimensions"
           /\ effects = NoEffects

\* C9: a resize call (either backend, either kernel) with out_w <= 0 or
\* out_h <= 0 fails before any output buffer is allocated, any pixel is
\* computed or any worker is started and returns no buffer: with
\* InvalidDimensions when the input buffer is not empty, and with
\* InvalidInput, the check that comes first, when it is.
C9_BadSizeRejected ==
    BadSizeCall
        => /\ pc = "returned"
           /\ result.status = "thrown"
           /\ result.img = DefaultImage
           /\ ErrorKind(result.what) =
                (IF empty(src) THEN "InvalidInput" ELSE "InvalidDimensions")
           /\ effects = NoEffects

\* an OpenMP call with out_h = 0 on a valid source, rejected by resize_omp
C9_Witness ==
    /\ BadSizeCall /\ RanOmp /\ pc = "returned"
    /\ WellFormed(src) /\ call.out_w = 2 /\ call.out_h = 0
    /\ result = Thrown("resize_omp: output size must be > 0")

\* the call carries a channel count other than 1, 3 or 4
BadChannels ==
    \/ call.op = "Image" /\ call.c \notin {1, 3, 4}
    \/ call.op = "resize" /\ src.channels \notin {1, 3, 4}

ShapeMessage ==
    IF RanOmp THEN "Image: channels must be 1,3,4"
    ELSE "resize_seq: supported channels are 1,3,4"

CtorEnded == pc = "returned" /\ call.op = "Image"

\* C11: Image(w, h, c) with w <= 0 or h <= 0 always fails with the
\* constructor's own validation error ("Image: width/height must be > 0"),
\* whatever c is, and never with another failure such as the error of an
\* allocation sized by w*h*c taken on unsigned 64-bit values.
C11_CtorValidatesFirst ==
    (CtorEnded /\ (call.out_w <= 0 \/ call.out_h <= 0))
        => /\ result.status = "thrown"
           /\ result.what = "Image: width/height must be > 0"

(***************************************************************************)
(* The benchmark harness (checked under BenchSpec)                         *)
(***************************************************************************)
\* benchmark_resize has been called
BenchCalled == bench.pc # "none"

\* benchmark_resize has returned a BenchResult
BenchOk == bench.pc = "done" /\ bench.res.status = "ok"

\* C12: benchmark_resize called with runs <= 0, warmup < 0, out_w <= 0 or
\* out_h <= 0 fails with InvalidParameters before it runs any resize
\* invocation and returns no BenchResult.
C12_BadParametersRejected ==
    (BenchCalled /\ (bench.runs <= 0 \/ bench.warmup < 0
                       \/ bench.out_w <= 0 \/ bench.out_h <= 0))
        => /\ bench.pc = "done"
           /\ bench.res.status = "thrown"
           /\ ErrorKind(bench.res.what) = "InvalidParameters"
           /\ bench.warm = 0
           /\ bench.timed = 0

\* the harness was given a buffer and a size that resize accepts
BenchValid == WellFormed(src) /\ bench.out_w > 0 /\ bench.out_h > 0

\* the call asks for warmup >= 0, runs >= 1 and no inner repetition
BenchPlain == BenchCalled /\ bench.warmup >= 0 /\ bench.runs >= 1 /\ bench.inner_reps = 1

\* C13: with warmup = w >= 0, runs = r >= 1 and no inner repetition,
\* benchmark_resize issues exactly w untimed resize invocations and then
\* exactly r timed ones, one after another: a timed invocation starts only
\* when all w warmup invocations have been started and have returned, at most
\* one invocation is in progress at any time (and resize is running only
\* while the harness waits for it), and the BenchResult is returned after w
\* warmup and r timed invocations, all of them finished.
C13_WarmupThenTimed ==
    (BenchPlain /\ BenchValid)
        => /\ bench.active \in {0, 1}
           /\ (bench.active = 1) = (bench.pc = "waiting")
           /\ (pc # "idle") => bench.pc = "waiting"
           /\ bench.warm <= bench.warmup
           /\ bench.timed <= bench.runs
           /\ (bench.timed > 0) => bench.warm = bench.warmup
           /\ (bench.phase = "timed") => bench.warm = bench.warmup
           /\ (bench.pc = "done")
                => /\ bench.res.status = "ok"
                   /\ bench.warm = bench.warmup
                   /\ bench.timed = bench.runs
                   /\ bench.active = 0

\* the second of three timed invocations runs in a team of two that has
\* written one row, after the warmup invocation
C13_Witness ==
    /\ BenchPlain /\ BenchValid
    /\ bench.warmup = 1 /\ bench.runs = 3
    /\ bench.warm = 1 /\ bench.timed = 2 /\ bench.active = 1
    /\ pc = "parallel" /\ team = 2 /\ Cardinality(written) = 1

\* C14: for runs >= 1 the BenchResult returned has runs equal to the count
\* requested, its statistics are those of exactly that many samples, and
\* min_ms <= mean_ms <= max_ms.
C14_MinMeanMax ==
    (BenchOk /\ bench.runs >= 1)
        => /\ bench.res.r.runs = bench.runs
           /\ Len(bench.samples) = bench.runs
           /\ F64Leq(bench.res.r.min_ms, bench.res.r.mean_ms)
           /\ F64Leq(bench.res.r.mean_ms, bench.res.r.max_ms)

\* (x - mu)^2 as the doubles compute it
SquaredDeviation(x, mu) == F64Mul(F64Sub(x, mu), F64Sub(x, mu))

\* the sum of the squared deviations of the first n samples from mu
RECURSIVE SumSquaredDeviations(_, _, _)
SumSquaredDeviations(v, mu, n) ==
    IF n = 0 THEN F64Zero
    ELSE F64Add(SumSquaredDeviations(v, mu, n - 1), SquaredDeviation(v[n], mu))

\* x * 2^k
F64Scale(x, k) == IF x[2] = <<>> THEN x ELSE <<x[1], x[2], x[3] + k>>

F64Abs(x) == IF x[1] = 0 THEN x ELSE <<1, x[2], x[3]>>

\* |x - y| <= 2^-50 * y: x and y differ by the rounding of a few operations
F64Near(x, y) == F64Leq(F64Abs(F64Sub(x, y)), F64Scale(y, -50))

\* sd is the sample standard deviation of v around mu, as doubles give it:
\* the square root of the sum of the squared deviations over n - 1, so that
\* sd^2 * (n - 1) is that sum up to the rounding of the quotient, of the root
\* and of the two products
SampleStddev(sd, v, mu) ==
    /\ sd = F64Sqrt(F64DivInt(SumSquaredDeviations(v, mu, Len(v)), Len(v) - 1))
    /\ F64Near(F64Mul(F64Mul(sd, sd), F64FromInt(Len(v) - 1)),
               SumSquaredDeviations(v, mu, Len(v)))

\* C15: stddev_ms is the sample standard deviation of the samples with the
\* n-1 denominator (stddev_ms^2 * (runs-1) is the sum of the squared
\* deviations of the samples from mean_ms, in the arithmetic of doubles), it
\* is never negative, and it is exactly 0 with fewer than 2 samples.
C15_SampleStddev ==
    (BenchOk /\ bench.runs >= 1)
        => /\ F64Sgn(bench.res.r.stddev_ms) >= 0
           /\ ~F64IsNaN(bench.res.r.stddev_ms)
           /\ (bench.runs < 2) => bench.res.r.stddev_ms = F64Zero
           /\ (bench.runs >= 2)
                => SampleStddev(bench.res.r.stddev_ms, bench.samples, bench.res.r.mean_ms)

\* three samples that are not all equal, batches of MaxReps invocations
C15_Witness ==
    /\ BenchOk /\ bench.runs = 3 /\ bench.inner_reps = MaxReps
    /\ Len(bench.samples) = 3
    /\ bench.samples[1] # bench.samples[2]
    /\ F64Sgn(bench.res.r.stddev_ms) = 1

(***************************************************************************)
(* compare_images and down_up_metrics (checked under MetricsSpec)          *)
(***************************************************************************)
\* compare_images(src, call.b) has returned or thrown
CompareEnded == pc = "returned" /\ call.op = "compare_images"

EqualShaped(a, b) ==
    a.width = b.width /\ a.height = b.height /\ a.channels = b.channels

\* the number of positions 1..n at which the byte sequences a and b differ
RECURSIVE CountDiffering(_, _, _)
CountDiffering(a, b, n) ==
    IF n = 0 THEN 0
    ELSE CountDiffering(a, b, n - 1) + (IF a[n] # b[n] THEN 1 ELSE 0)

\* the largest |a[i] - b[i]| over the positions 1..n, 0 if there is none
RECURSIVE LargestDifference(_, _, _)
LargestDifference(a, b, n) ==
    IF n = 0 THEN 0
    ELSE Max(LargestDifference(a, b, n - 1), Abs(a[n] - b[n]))

\* C16: on two valid buffers of equal shape compare_images returns
\* different_values = the number of positions i with a[i] # b[i] (every
\* channel value counted once) and max_abs_diff = the largest |a[i] - b[i]|,
\* 0 if there is none; so max_abs_diff is in 0..255, different_values is 0
\* exactly when max_abs_diff is 0, and compare_images(a, a) is (0, 0).
C16_CompareCounts ==
    (CompareEnded /\ WellFormed(src) /\ WellFormed(call.b) /\ EqualShaped(src, call.b))
        => /\ result.status = "ok"
           /\ result.stats.different_values =
                CountDiffering(src.data, call.b.data, Len(src.data))
           /\ result.stats.max_abs_diff =
                LargestDifference(src.data, call.b.data, Len(src.data))
           /\ result.stats.max_abs_diff \in 0..255
           /\ (result.stats.different_values = 0) = (result.stats.max_abs_diff = 0)
           /\ (call.b = src)
                => result.stats = [different_values |-> 0, max_abs_diff |-> 0]

\* the all-zero 4x4x3 buffer compared with the all-255 one: 48 values
\* differ, by 255
C16_Witness ==
    /\ CompareEnded /\ src = ZeroImage /\ call.b = Filled(ZeroImage, 255)
    /\ result.status = "ok"
    /\ result.stats = [different_values |-> 48, max_abs_diff |-> 255]

\* C17: compare_images(a, b) on buffers that differ in width, height or
\* channels fails with ShapeMismatch; it returns no DiffStats and has
\* compared no value.
C17_ShapeMismatch ==
    (CompareEnded /\ ~EqualShaped(src, call.b))
        => /\ result.status = "thrown"
           /\ ErrorKind(result.what) = "ShapeMismatch"
           /\ result.stats = [different_values |-> 0, max_abs_diff |-> 0]

\* a 1x2 gray buffer compared with the 2x1 one: as many bytes, another shape
C17_Witness ==
    /\ CompareEnded
    /\ src.width = 1 /\ src.height = 2 /\ src.channels = 1
    /\ call.b.width = 2 /\ call.b.height = 1 /\ call.b.channels = 1
    /\ result.status = "thrown"

\* down_up_metrics has returned or thrown
DownUpEnded == pc = "returned" /\ call.op = "down_up_metrics"

\* C18: for a valid src, any two methods, either backend and any thread
\* count, down_up_metrics with down_w = src.width and down_h = src.height
\* returns mae = 0, rmse = 0, psnr = +infinity and max_abs = 0.
C18_SameSizeRoundTrip ==
    (DownUpEnded /\ WellFormed(src)
       /\ call.down_w = src.width /\ call.down_h = src.height)
        => /\ result.status = "ok"
           /\ result.m.mae = F64Zero
           /\ result.m.rmse = F64Zero
           /\ result.m.psnr.infinite
           /\ result.m.max_abs = 0

\* a 2x2 RGB buffer through Bilinear both ways at its own size, in a build
\* with OpenMP
C18_Witness ==
    /\ DownUpEnded /\ WellFormed(src)
    /\ src.width = 2 /\ src.height = 2 /\ src.channels = 3
    /\ call.down_w = 2 /\ call.down_h = 2
    /\ call.down_method = "Bilinear" /\ call.up_method = "Bilinear"
    /\ call.backend = "OpenMP" /\ have_openmp
    /\ result.status = "ok" /\ result.resizes = 2

\* the buffer the round trip of the call gives
RoundTrip ==
    resize_value(
        resize_value(src, call.down_w, call.down_h, call.down_method,
                     call.backend, have_openmp).img,
        src.width, src.height, call.up_method, call.backend, have_openmp).img

\* C19: psnr is +infinity exactly when the round-tripped buffer equals src
\* byte for byte; in that case, and only then, mae = 0, rmse = 0 and
\* max_abs = 0; otherwise psnr is finite and max_abs is in 1..255.
C19_PsnrInfiniteIffEqual ==
    (DownUpEnded /\ WellFormed(src) /\ result.status = "ok")
        => /\ result.m.psnr.infinite = (RoundTrip.data = src.data)
           /\ result.m.psnr.infinite
                => /\ result.m.mae = F64Zero
                   /\ result.m.rmse = F64Zero
                   /\ result.m.max_abs = 0
           /\ ~result.m.psnr.infinite
                => /\ F64Sgn(result.m.mae) = 1
                   /\ F64Sgn(result.m.rmse) = 1
                   /\ F64Sgn(result.m.psnr.mse) = 1
                   /\ result.m.max_abs \in 1..255

\* a 2x2 buffer reduced to one pixel and enlarged again differs from src
C19_Witness ==
    /\ DownUpEnded /\ WellFormed(src) /\ result.status = "ok"
    /\ src.width = 2 /\ src.height = 2
    /\ call.down_w = 1 /\ call.down_h = 1
    /\ ~result.m.psnr.infinite
    /\ result.m.max_abs >= 1

\* C20: down_up_metrics on an empty src, or with down_w <= 0 or
\* down_h <= 0, fails with InvalidInput before any resampling is started and
\* returns no metrics.
C20_DownUpRejects ==
    (DownUpEnded /\ (empty(src) \/ call.down_w <= 0 \/ call.down_h <= 0))
        => /\ result.status = "thrown"
           /\ ErrorKind(result.what) = "InvalidInput"
           /\ result.resizes = 0
           /\ result.m = NoMetrics

\* a valid buffer and down_w = 0
C20_Witness ==
    /\ DownUpEnded /\ WellFormed(src)
    /\ call.down_w = 0 /\ call.down_h > 0
    /\ result.status = "thrown"
    /\ result.what = "down_up_metrics: invalid downscale size"

(***************************************************************************)
(* Shape of the buffers resize returns (checked under Spec)                *)
(***************************************************************************)
\* C21: every buffer resize returns, for either kernel and either backend,
\* has width = out_w, height = out_h, the channels of the input buffer and
\* a data length of width * height * channels.
C21_ReturnedShape ==
    (ResizeReturned /\ result.status = "ok")
        => /\ result.img.width = call.out_w
           /\ result.img.height = call.out_h
           /\ result.img.channels = src.channels
           /\ Len(result.img.data) =
                result.img.width * result.img.height * result.img.channels

\* a 2x1, 3-channel source resized to 3x2 by the sequential Nearest kernel
C21_Witness ==
    /\ ResizeReturned /\ result.status = "ok" /\ WellFormed(src)
    /\ call.method = "Nearest" /\ call.backend = "Sequential"
    /\ src.width = 2 /\ src.height = 1 /\ src.channels = 3
    /\ call.out_w = 3 /\ call.out_h = 2
    /\ Len(result.img.data) = 18

(***************************************************************************)
(* Frame of the operations (checked under ProgramSpec)                     *)
(***************************************************************************)
\* the offsets (from 1) of out.data that belong to row y
RowOffsets(o, y) == (row_ptr(o, y) + 1)..(row_ptr(o, y) + o.width * o.channels)

\* the step from out to out' changes bytes of row y only, all inside the vector
StoresInRow(y) ==
    /\ Len(out'.data) = Len(out.data)
    /\ RowOffsets(out, y) \subseteq 1..Len(out.data)
    /\ \A i \in 1..Len(out.data) :
          out'.data[i] # out.data[i] => i \in RowOffsets(out, y)

\* no step of resize, compare_images, down_up_metrics or benchmark_resize
\* changes the source buffer; a worker's step stores into its row of the
\* local `out` only; a buffer resize returns was allocated by that call
InputsUntouched ==
    /\ src' = src
    /\ (pc = "parallel" /\ written' # written)
          => \E y \in written' \ written : written' = written \cup {y} /\ StoresInRow(y)
    /\ (pc' = "returned" /\ call'.op = "resize" /\ result'.status = "ok")
          => effects'.alloc

\* C22: resize (both backends, both kernels), compare_images,
\* down_up_metrics and benchmark_resize never modify the buffer passed to
\* them: over any sequence of these calls the source's width, height,
\* channels and data stay as they were, every store of a kernel goes to the
\* output buffer the call allocated, and that buffer is what is returned.
C22_InputsUntouched == [][InputsUntouched]_vars

\* a later call of a sequence: an OpenMP resize of the 2x2 RGB source with
\* threads = 0 that ran with the team size an earlier call had set
C22_Witness ==
    /\ src = Image(2, 2, 3, SampleData(12, 1))
    /\ ResizeReturned /\ RanOmp /\ result.status = "ok"
    /\ call.method = "Bilinear" /\ call.out_w = MaxOutW /\ call.out_h = MaxOutH
    /\ written = 0..(MaxOutH - 1)
    /\ call.threads = 0 /\ nthreads_var = 2 /\ team = 2

(***************************************************************************)
(* Element and row access (checked under AccessSpec)                       *)
(***************************************************************************)
\* an access has returned to its caller
AccessReturned == pc = "returned" /\ call.op \in {"at", "row_ptr"}

\* the access names a pixel, row or channel the buffer does not have
OutOfRange ==
    \/ call.y < 0 \/ call.y >= src.height
    \/ call.op = "at" /\ (call.x < 0 \/ call.x >= src.width
                          \/ call.c < 0 \/ call.c >= src.channels)

\* C23: at(x, y, c) and row_ptr(y) are bounds-checked: an access with x
\* outside [0, width), y outside [0, height) or c outside [0, channels) is
\* rejected, and yields neither a byte outside the buffer nor a byte of
\* another pixel than the one named.
C23_BoundsChecked ==
    (AccessReturned /\ OutOfRange) => result.status = "thrown"

(***************************************************************************)
(* The gradient scenario (checked under ScenarioSpec)                      *)
(***************************************************************************)
\* the Bilinear resize of the gradient to 4x4 has returned its buffer
GradientReturned ==
    /\ ResizeReturned /\ result.status = "ok"
    /\ src = GradientImage /\ call.method = "Bilinear"
    /\ call.out_w = 4 /\ call.out_h = 4

Corner(x, y) == x \in {0, 3} /\ y \in {0, 3}

\* C24 as stated: every output pixel that is not one of the four corners
\* has a gray value strictly between 0 and 255.
C24_AsStated ==
    GradientReturned
        => \A x \in 0..3, y \in 0..3 :
              ~Corner(x, y) => /\ at(result.img, x, y, 0) > 0
                               /\ at(result.img, x, y, 0) < 255

\* C24: resizing the 2x2, 1-channel buffer [0, 255, 0, 255] to 4x4 with
\* Bilinear gives, on either backend, four rows 0, 64, 191, 255: the
\* pixels of the two inner columns are strictly between 0 and 255, those of
\* the first column are 0 and those of the last are 255, in every row (the
\* source does not vary from row to row).
C24_GradientColumns ==
    GradientReturned
        => /\ result.img.data = <<0, 64, 191, 255, 0, 64, 191, 255,
                                  0, 64, 191, 255, 0, 64, 191, 255>>
           /\ \A x \in 0..3, y \in 0..3 :
                 /\ x \in {1, 2} => /\ at(result.img, x, y, 0) > 0
                                    /\ at(result.img, x, y, 0) < 255
                 /\ x = 0 => at(result.img, x, y, 0) = 0
                 /\ x = 3 => at(result.img, x, y, 0) = 255

\* the scenario run by a team of two in a build with OpenMP
C24_Witness ==
    /\ GradientReturned /\ RanOmp /\ team = 2
    /\ written = 0..3
    /\ at(result.img, 1, 2, 0) = 64
    /\ at(result.img, 0, 1, 0) = 0

(***************************************************************************)
(* Termination of resize (checked under LiveSpec)                          *)
(***************************************************************************)
\* C25: every resize call on valid arguments, on either backend and with
\* any worker count, eventually completes and returns a buffer; nothing
\* cancels it, times it out or makes a worker wait for another one.
C25_ResizeCompletes ==
    (call.op = "resize" /\ ValidCall) ~> (ResizeReturned /\ result.status = "ok")

\* a call run by a team of 8 for 2 output rows has returned its buffer
C25_Witness ==
    /\ ResizeReturned /\ ValidCall /\ RanOmp /\ result.status = "ok"
    /\ team = 8 /\ call.out_h = 2 /\ written = {0, 1}
    /\ call.method = "Nearest"

(***************************************************************************)
(* The parallel backend asked for in a build without it (under Spec)       *)
(***************************************************************************)
\* all the caller gets from a resize call: the value returned or the
\* exception thrown (the call writes no message and sets no flag)
Observed == [status |-> result.status, what |-> result.what, img |-> result.img]

\* what the caller gets when it asks for Backend::Sequential itself
ObservedSequential == resize_seq(src, call.out_w, call.out_h, call.method, 0)

\* C26: in a build without the parallel backend a resize call that asks
\* for Backend::OpenMP does not silently run the sequential code: it fails
\* with a configuration error, or what the caller observes tells the
\* substitution apart from a call that asked for Sequential.
C26_FallbackNotSilent ==
    (ResizeReturned /\ ValidCall /\ call.backend = "OpenMP" /\ ~have_openmp)
        => \/ result.status = "thrown"
           \/ Observed # ObservedSequential

(***************************************************************************)
(* The workers' rows (checked under ScenarioSpec)                          *)
(***************************************************************************)
\* a RowParallel call is in its parallel region or has returned from it
RowParallel == call.op = "resize" /\ RanOmp /\ team >= 1

\* the rows schedule(static) assigns to worker t
Block(t) ==
    static_block(call.out_h, team, t).lo..(static_block(call.out_h, team, t).hi - 1)

Owners(y) == {t \in 0..(team - 1) : y \in Block(t)}

\* the blocks are contiguous, follow one another in the order of the
\* workers, stay inside [0, out_h) and give every row to exactly one worker
StaticPartition ==
    /\ \A t \in 0..(team - 1) :
          /\ static_block(call.out_h, team, t).lo <= static_block(call.out_h, team, t).hi
          /\ Block(t) \subseteq 0..(call.out_h - 1)
          /\ t + 1 < team =>
                static_block(call.out_h, team, t).hi = static_block(call.out_h, team, t + 1).lo
    /\ \A y \in 0..(call.out_h - 1) : Cardinality(Owners(y)) = 1

\* a step that completes a row completes one row, not completed before,
\* that has one owner, and stores into the bytes of that row only
RowByItsOwner ==
    (pc = "parallel" /\ written' # written)
        => \E y \in written' \ written :
              /\ written' = written \cup {y}
              /\ Cardinality(Owners(y)) = 1
              /\ Todo(CHOOSE t \in Owners(y) : TRUE) = {z \in Block(CHOOSE t \in Owners(y) : TRUE) : z >= y}
              /\ StoresInRow(y)

\* C27: in one RowParallel resize call with any worker count n >= 1, also
\* n larger than out_h, the rows [0, out_h) are split into contiguous,
\* statically assigned blocks and every row is computed by exactly one
\* worker: no byte is written by two workers, no row is left unwritten when
\* the call returns, and a worker writes its own rows only.
C27_RowsPartitioned ==
    /\ [](RowParallel /\ pc \in {"parallel", "returned"} /\ result.status # "thrown"
            => /\ StaticPartition
               /\ written \subseteq 0..(call.out_h - 1)
               /\ pc = "returned" => written = 0..(call.out_h - 1))
    /\ [][RowParallel => RowByItsOwner]_vars

\* a team of 8 for 3 rows: three workers have one row each, five have none,
\* and two of the rows are completed
C27_Witness ==
    /\ RowParallel /\ pc = "parallel"
    /\ team = 8 /\ call.out_h = 3
    /\ written = {0, 2}
    /\ Block(1) = {1} /\ Block(5) = {}

(***************************************************************************)
(* The barrier before the return (checked under Spec)                      *)
(***************************************************************************)
\* the call leaves its parallel region and returns to the caller
Returns == pc = "parallel" /\ pc' = "returned"

\* at the return no worker has a row left, every row is completed and the
\* caller gets the buffer the workers filled
AllRowsDone ==
    /\ \A t \in 0..(team - 1) : Todo(t) = {}
    /\ written = 0..(call.out_h - 1)
    /\ result' = Returned(out)

\* C28: a RowParallel resize call returns to its caller only after every
\* worker has finished all of its rows; while a row is still to be written
\* the caller holds no result.
C28_ReturnsAfterJoin ==
    /\ [][Returns => AllRowsDone]_vars
    /\ [](pc = "parallel" => result = NoResult)

\* both workers of a team of two are done with their row of a Nearest
\* resize and the call has returned
C28_Witness ==
    /\ ResizeReturned /\ RanOmp /\ result.status = "ok"
    /\ call.method = "Nearest" /\ call.threads = 2 /\ team = 2
    /\ call.out_w = 1 /\ call.out_h = 2
    /\ written = {0, 1}
    /\ out = DefaultImage

(***************************************************************************)
(* Inner repetitions (checked under BenchSpec)                             *)
(***************************************************************************)
\* the harness was asked for runs >= 1 batches of K = inner_reps >= 1
\* invocations on arguments resize accepts
BenchBatched ==
    /\ BenchCalled /\ BenchValid
    /\ bench.warmup >= 0 /\ bench.runs >= 1 /\ bench.inner_reps >= 1

\* the time of a batch of K invocations, d ticks, divided by K
BatchMeans == {F64DivInt(F64FromInt(d), bench.inner_reps) : d \in Ticks}

\* timed invocations started so far, from the loop counters
TimedStarted ==
    IF bench.phase # "timed" THEN 0
    ELSE bench.inner_reps * bench.i + bench.k + (IF bench.pc = "waiting" THEN 1 ELSE 0)

\* C29: with an inner-repetition count K >= 1, benchmark_resize records
\* exactly runs samples, each the elapsed time of K consecutive resize
\* invocations divided by K, makes K * runs timed invocations in all, and
\* takes its statistics over these runs batch means.
C29_BatchMeans ==
    BenchBatched
        => /\ \A j \in 1..Len(bench.samples) : bench.samples[j] \in BatchMeans
           /\ Len(bench.samples) <= bench.runs
           /\ bench.pc \in {"calling", "waiting"}
                => /\ bench.timed = TimedStarted
                   /\ bench.phase = "timed" => Len(bench.samples) = bench.i
           /\ bench.pc = "done"
                => /\ bench.res.status = "ok"
                   /\ Len(bench.samples) = bench.runs
                   /\ bench.timed = bench.inner_reps * bench.runs
                   /\ bench.res.r.runs = bench.runs
                   /\ bench.res.r.mean_ms = mean(bench.samples)
                   /\ bench.res.r.stddev_ms = stddev_sample(bench.samples, mean(bench.samples))
                   /\ \E j \in 1..bench.runs : bench.res.r.min_ms = bench.samples[j]
                   /\ \E j \in 1..bench.runs : bench.res.r.max_ms = bench.samples[j]
                   /\ \A j \in 1..bench.runs :
                         /\ F64Leq(bench.res.r.min_ms, bench.samples[j])
                         /\ F64Leq(bench.samples[j], bench.res.r.max_ms)

\* two batches of K = MaxReps invocations, of one and of two ticks
C29_Witness ==
    /\ BenchBatched /\ BenchOk
    /\ bench.inner_reps = MaxReps /\ bench.runs = 2
    /\ bench.timed = 2 * MaxReps
    /\ bench.samples = <<F64DivInt(F64FromInt(1), MaxReps), F64DivInt(F64FromInt(2), MaxReps)>>

(***************************************************************************)
(* The CSV file (checked under CsvSpec)                                    *)
(***************************************************************************)
\* a call of append_csv_row writes to the file
Appends == call'.op = "append_csv_row" /\ pc = "idle" /\ pc' = "returned"
              /\ result'.status = "ok"

\* the call wrote the header line before the row
WroteHeader == csv'.lines = csv.lines \o <<call'.header, call'.row>>

\* the call wrote the row alone
WroteRowOnly == csv'.lines = Append(csv.lines, call'.row)

\* the header is written exactly when the file does not exist or is empty,
\* and the header is not empty
HeaderIffNew ==
    IF (~csv.exists \/ csv.lines = <<>>) /\ call'.header # ""
      THEN WroteHeader
      ELSE WroteRowOnly

\* after calls with one non-empty header on a file that was missing, the
\* file is the header followed by the rows in call order
HeaderOnceFromMissing ==
    (csv.was_missing /\ csv.rows # <<>> /\ csv.headers = {"h"})
        => csv.lines = <<"h">> \o csv.rows

\* C30: append_csv_row writes the header line before the row exactly when
\* the target file does not exist or is empty (and the header is not
\* empty); so after any sequence of calls with the same non-empty header on
\* an initially missing file, the file consists of the header once, as its
\* first line, followed by all the rows in call order.
C30_HeaderOnce ==
    /\ [][Appends => HeaderIffNew]_vars
    /\ []HeaderOnceFromMissing
====
